---- MODULE Spec2Model ----
(***************************************************************************)
(* A model of the VRAM resource server's ResourceManager                   *)
(* (src/vram-system/server/resource_manager.py) and of the HTTP handlers   *)
(* of src/vram-system/server/app.py that call it.                          *)
(*                                                                         *)
(* Spec      one request at a time, on two ids: every handler is one       *)
(*           atomic action; the file system does what it is asked.         *)
(* SpecEnv   one request at a time, on one id, in an environment that may  *)
(*           fail a payload write or a file removal and may rewrite or     *)
(*           remove a payload file between two requests.                   *)
(* SpecConc  two request threads (Flask serves each request in its own     *)
(*           thread): every handler is cut at the statements that read or  *)
(*           write the shared metadata dictionaries and the payload file.  *)
(* SpecDisk  one request at a time, with saves of metadata.json that fail, *)
(*           restarts, and a metadata.json that is unusable at start-up.   *)
(* SpecList  one request at a time, on three ids: the listings.            *)
(* SpecRead  two request threads: get_resource, statement by statement,    *)
(*           beside stores and gets of the id.                             *)
(* SpecWeb   the store route: JSON bodies, their validation and base64     *)
(*           decoding, and ids that name the same payload file.            *)
(* SpecDel   two request threads: get_resource beside delete_resource,     *)
(*           with _save_metadata cut at its open, dump and close.          *)
(* SpecRelay the telemetry relay of src/python-terminal/debug_server.py.   *)
(***************************************************************************)
EXTENDS Integers, Sequences, FiniteSets, TLC

VARIABLES
  metadata,   \* self.metadata: [resources, versions], two dicts keyed by id
  files,      \* the payload files of <resources_dir>: file -> bytes
  disk_meta,  \* the file metadata.json
  now,        \* datetime.now(), as a logical clock
  last,       \* the last completed request and what it returned
  stored,     \* history: the payload and file bytes of the last successful
              \* store of an id, and what has happened to the id since
  ver,        \* history: the versions successful stores returned, per id
  pc,         \* SpecConc: the statement each request thread is at
  loc,        \* SpecConc: each thread's call arguments and local variables
  verBefore,  \* SpecConc: versions.get(id, 0) before any thread started
  relay       \* the telemetry relay (debug_server.py): its DebugDataProcessor
              \* and its connection handlers

vars == <<metadata, files, disk_meta, now, last, stored, ver,
          pc, loc, verBefore, relay>>

(***************************************************************************)
(* Bounds and input sets.                                                  *)
(***************************************************************************)
MaxLen == 1
MaxClock == 3

Ids == {"a", "b"}
Bytes == {0, 1}
Payloads == UNION {[1..n -> Bytes] : n \in 0..MaxLen}
\* (resource_type, priority): store_resource's defaults, and another pair
DefaultOpt == [type |-> "generic", priority |-> 1]
TextOpt == [type |-> "text", priority |-> 2]
\* the (data, resource_type/priority, compress) arguments of a store call
StoreArgs ==
  [data : Payloads, opt : {DefaultOpt}, compress : BOOLEAN]
    \cup [data : {<<>>}, opt : {TextOpt}, compress : BOOLEAN]
EnvIds == {"a"}
EnvStoreArgs == [data : Payloads, opt : {DefaultOpt}, compress : BOOLEAN]

(***************************************************************************)
(* Python dict operations on a function whose domain is the set of keys.   *)
(***************************************************************************)
Put(d, k, v) == [x \in (DOMAIN d) \cup {k} |-> IF x = k THEN v ELSE d[x]]
Del(d, k) == [x \in (DOMAIN d) \ {k} |-> d[x]]
DictGet(d, k, default) == IF k \in DOMAIN d THEN d[k] ELSE default
EmptyDict == [x \in {} |-> 0]

(***************************************************************************)
(* _calculate_hash: SHA-256 of the data.  Modelled as an injective digest  *)
(* of the byte sequence (collision resistance): a positional code.         *)
(***************************************************************************)
RECURSIVE Digest(_)
Digest(data) ==
  IF data = <<>> THEN 1
  ELSE (data[Len(data)] + 1) + 8 * Digest(SubSeq(data, 1, Len(data) - 1))

CalculateHash(data) == Digest(data)

(***************************************************************************)
(* gzip.compress / gzip.decompress.  A gzip member is a header (magic,     *)
(* MTIME, ...), the deflated body and a trailer (CRC32, ISIZE).  The model *)
(* keeps one magic byte and one MTIME byte, a stored body, and a one-byte  *)
(* checksum and length.  Decompression checks magic, checksum and length   *)
(* and ignores MTIME, as gzip does.                                        *)
(***************************************************************************)
RECURSIVE SumBytes(_)
SumBytes(data) ==
  IF data = <<>> THEN 0 ELSE data[1] + SumBytes(Tail(data))

Crc(data) == (SumBytes(data) + Len(data)) % 2

GzipCompress(data, mtime) == <<2, mtime>> \o data \o <<Crc(data), Len(data)>>

GzipBody(raw) == SubSeq(raw, 3, Len(raw) - 2)

\* gzip.decompress raises (BadGzipFile, EOFError, zlib.error) on other input.
GzipValid(raw) ==
  /\ Len(raw) >= 4
  /\ raw[1] = 2
  /\ raw[Len(raw) - 1] = Crc(GzipBody(raw))
  /\ raw[Len(raw)] = Len(GzipBody(raw))

\* faulty variant: the member is written without its trailer
CompressData_NoTrailer(data, mtime) == <<2, mtime>> \o data

CompressData(data, mtime) == GzipCompress(data, mtime)

DecompressData(raw) == GzipBody(raw)

(***************************************************************************)
(* Values returned to callers.                                             *)
(***************************************************************************)
NoMeta == [type |-> "", size |-> 0, compressed_size |-> 0, hash |-> 0,
           compressed |-> FALSE, priority |-> 0, created |-> 0,
           last_accessed |-> 0, access_count |-> 0]

\* get_resource returns None or the tuple (data, resource_meta)
None == [none |-> TRUE, data |-> <<>>, meta |-> NoMeta]
DataAndMeta(data, meta) == [none |-> FALSE, data |-> data, meta |-> meta]

\* store_resource's error dict carries none of the success dict's numbers
NoResult == [size |-> 0, compressed_size |-> 0, version |-> 0, hash |-> 0]

\* What a completed request returned:
\*   status  the "status" of store's dict; "found"/"none" for get_resource
\*           and check_version; "true"/"false" for delete_resource
\*   branch  the path taken through the handler
\*   env     history: stored[id].state when the request started
\*   value   the value returned (None/(data, meta), the store dict, a
\*           version, a listing, the statistics, the info response)
Returned(op, id, status, branch, env, value) ==
  [op |-> op, id |-> id, status |-> status, branch |-> branch,
   env |-> env, value |-> value]

(***************************************************************************)
(* History variables (not program state).                                  *)
(***************************************************************************)
\* stored[id].state:
\*   "none"          no successful store since the start or the last delete
\*   "stored"        a store succeeded; since then no other store or delete
\*                   of the id was called and its file holds what was written
\*   "failed_store"  as "stored", then store calls of the id failed
\*   "changed"       as "stored", then the file was rewritten from outside
\*                   and holds other bytes than the store wrote
\*   "disturbed"     anything else
NoStored == [state |-> "none", p |-> <<>>, raw |-> <<>>]

AfterFailedStore(h) ==
  IF h.state \in {"stored", "failed_store"} THEN [h EXCEPT !.state = "failed_store"]
  ELSE IF h.state = "none" THEN h ELSE [h EXCEPT !.state = "disturbed"]

AfterExternalWrite(h, raw) ==
  IF h.state \in {"stored", "changed"}
  THEN [h EXCEPT !.state = IF raw = h.raw THEN "stored" ELSE "changed"]
  ELSE IF h.state = "none" THEN h ELSE [h EXCEPT !.state = "disturbed"]

AfterDisturbance(h) ==
  IF h.state = "none" THEN h ELSE [h EXCEPT !.state = "disturbed"]

\* ver[id], the versions store_resource returned for the id:
\*   last    the one the most recent successful store returned (0: none)
\*   prev    the one the successful store before it returned, 0 when there
\*           was none since the id's last successful delete
\*   runmax  the greatest one earlier successful stores returned since the
\*           id's last successful delete (0: none)
\*   max     the greatest one any earlier successful store returned
\*   fresh   no successful store since the start or the last successful delete
NoVersions == [last |-> 0, prev |-> 0, runmax |-> 0, max |-> 0, fresh |-> TRUE]
Max(x, y) == IF x >= y THEN x ELSE y
StoreReturned(h, v) ==
  [last |-> v, prev |-> IF h.fresh THEN 0 ELSE h.last,
   runmax |-> IF h.fresh THEN 0 ELSE Max(h.runmax, h.last),
   max |-> Max(h.max, h.last), fresh |-> FALSE]
DeleteReturnedTrue(h) == [h EXCEPT !.fresh = TRUE]

EmptyMetadata == [resources |-> EmptyDict, versions |-> EmptyDict]

Threads == {1, 2}
\* A thread's call (op, id, data, compress), its local variables (raw:
\* storage_data, tmp: the value of line 91's right-hand side), what it
\* returned (status, version), and, for a read, whether it saw a record and
\* whether it saw a version counter of the id.  For get_resource: meta is
\* resource_meta, a reference to the record's dict read at line 126, out the
\* data returned; detached: the dict resource_meta refers to is no longer
\* the one in self.metadata["resources"], meta then holds its content.  unlinked: the file the
\* thread holds open for writing has been removed from the directory.
\* buf: the text _save_metadata has written to its file object and not yet
\* flushed to metadata.json.
NoCall == [op |-> "", id |-> "", data |-> <<>>, compress |-> FALSE,
           raw |-> <<>>, unlinked |-> FALSE, tmp |-> 0,
           status |-> "", version |-> 0,
           sawRecord |-> FALSE, sawVersion |-> FALSE,
           meta |-> NoMeta, detached |-> FALSE, out |-> <<>>,
           buf |-> [kind |-> "absent"]]

(***************************************************************************)
(* metadata.json.  The file is absent, or holds text json.load rejects     *)
(* (empty or cut short by a failed write, or anything else that is not     *)
(* JSON), or holds the JSON text of a value.  json.dump writes a dict of   *)
(* str keys, int, str and bool values as text from which json.load builds  *)
(* an equal dict.                                                          *)
(***************************************************************************)
NoFile == [kind |-> "absent"]
Unparseable == [kind |-> "unparseable"]
JsonFile(value) == [kind |-> "json", value |-> value]

\* _load_metadata (lines 28-36): whatever json.load returns, or the two
\* empty mappings when there is no file or json.load raises
LoadMetadata(file) ==
  IF file.kind = "json" THEN file.value ELSE EmptyMetadata

\* self.metadata has the two keys the methods subscript it with
Loaded(md) == {"resources", "versions"} \subseteq DOMAIN md

(***************************************************************************)
(* The telemetry relay (src/python-terminal/debug_server.py): the          *)
(* DebugDataProcessor and the connections M5DebugServer.handle_client      *)
(* serves.  The server runs on one asyncio event loop: a handler runs      *)
(* without interruption from one await to the next, and add_client,        *)
(* remove_client and process_data have no await.                           *)
(***************************************************************************)
\* self.max_history is 1000; the model keeps a short history
MaxHistory == 2
\* datetime.now() of the relay is the number of messages received so far,
\* and the model stops receiving after MaxMsgs messages
MaxMsgs == MaxHistory + 1

\* the connections the server can hold, and the "ip:port" of their peers
Conns == {1, 2}
Addrs == {"x", "y"}

\* what json.loads(message) gives: a dict with a 'type' that is a string,
\* with a 'type' that is a list, or without 'type'; or a value that is not
\* a dict; "text" is a message json.loads rejects
Msgs ==
  [kind : {"dict"}, type_is : {"str"}, type : {"memory"}]
    \cup [kind : {"dict"}, type_is : {"absent", "list"}, type : {""}]
    \cup [kind : {"list", "text"}, type_is : {"absent"}, type : {""}]

\* DebugDataProcessor.__init__ (lines 29-38), and no connection;
\*   conns     per connection: "free", "welcome" (handle_client has added
\*             the client and awaits the welcome send), "open" (it awaits a
\*             message), "closing" (the connection has gone, the handler
\*             has not run since), and the peer's address
\*   accepted  history: every entry process_data has appended
\*   all_true  history: no process_data call has returned False
NewRelay ==
  [clients |-> EmptyDict,
   data_history |-> <<>>,
   stats |-> [total_messages |-> 0, messages_by_type |-> EmptyDict,
              connected_clients |-> 0, start_time |-> 0],
   clock |-> 0,
   conns |-> [k \in Conns |-> [state |-> "free", addr |-> ""]],
   accepted |-> <<>>,
   all_true |-> TRUE]

\* add_client (lines 40-49)
AddClient(r, client_id, websocket) ==
  LET clients == Put(r.clients, client_id,
                     [websocket |-> websocket, connected_at |-> r.clock,
                      last_seen |-> r.clock, message_count |-> 0])
  IN [r EXCEPT !.clients = clients,
               !.stats.connected_clients = Cardinality(DOMAIN clients)]

\* faulty variant: the client is deleted and the count is left as it was
RemoveClient_KeepsCount(r, client_id) ==
  IF client_id \in DOMAIN r.clients
  THEN [r EXCEPT !.clients = Del(@, client_id)]
  ELSE r

\* remove_client (lines 51-56)
RemoveClient(r, client_id) ==
  IF client_id \in DOMAIN r.clients
  THEN LET clients == Del(r.clients, client_id)
       IN [r EXCEPT !.clients = clients,
                    !.stats.connected_clients = Cardinality(DOMAIN clients)]
  ELSE r

\* lines 62-64
Seen(r, client_id) ==
  IF client_id \in DOMAIN r.clients
  THEN [r EXCEPT !.clients[client_id].last_seen = r.clock,
                 !.clients[client_id].message_count = @ + 1]
  ELSE r

\* line 68: data.get('type', 'unknown')
MsgType(data) == IF data.type_is = "absent" THEN "unknown" ELSE data.type

\* faulty variant: the count of the type starts again at 1
CountType_Restarts(by_type, msg_type) == Put(by_type, msg_type, 1)

\* line 69
CountType(by_type, msg_type) ==
  Put(by_type, msg_type, DictGet(by_type, msg_type, 0) + 1)

\* lines 72-73: the entry that goes to the history
Entry(r, client_id, data) ==
  [type_is |-> data.type_is, type |-> data.type,
   server_timestamp |-> r.clock, client_id |-> client_id]

\* faulty variant: the newest entry is dropped
TrimHistory_DropsNewest(h) ==
  IF Len(h) > MaxHistory THEN SubSeq(h, 1, Len(h) - 1) ELSE h

\* lines 77-78
TrimHistory(h) == IF Len(h) > MaxHistory THEN Tail(h) ELSE h

\* process_data (lines 58-84): the processor after the call and the value
\* returned.  data.get raises AttributeError when data is not a dict, and
\* the subscript of line 69 raises TypeError when the type is a list: the
\* handler of lines 82-84 returns False, after lines 62-67 have run.
ProcessData(r, client_id, data) ==
  LET r1 == [Seen(r, client_id) EXCEPT !.stats.total_messages = @ + 1]
  IN IF data.kind /= "dict" \/ data.type_is = "list"
     THEN [r |-> [r1 EXCEPT !.all_true = FALSE], ok |-> FALSE]
     ELSE [r |-> [r1 EXCEPT
                    !.stats.messages_by_type = CountType(@, MsgType(data)),
                    !.data_history =
                       TrimHistory(Append(@, Entry(r, client_id, data))),
                    !.accepted = Append(@, Entry(r, client_id, data))],
           ok |-> TRUE]

(***************************************************************************)
(* Lines 70, 116 and 181: os.path.join(self.resources_dir,                 *)
(* f"{resource_id}.bin").  A file is named by the shortest id whose path   *)
(* designates it: <resources_dir>/./a.bin is the file <resources_dir>/a.bin.*)
(***************************************************************************)
SamePathAs == [id \in {"./a"} |-> "a"]
FilePath(id) == IF id \in DOMAIN SamePathAs THEN SamePathAs[id] ELSE id

(***************************************************************************)
(* __init__ with no metadata.json: _load_metadata returns the two empty    *)
(* mappings; the resources directory holds no payload file.                *)
(***************************************************************************)
Init ==
  /\ metadata = EmptyMetadata
  /\ files = EmptyDict
  /\ disk_meta = NoFile
  /\ now = 1
  /\ last = Returned("init", "", "", "", "", <<>>)
  /\ stored = [i \in Ids |-> NoStored]
  /\ ver = [i \in Ids |-> NoVersions]
  /\ pc = [t \in Threads |-> "idle"]
  /\ loc = [t \in Threads |-> NoCall]
  /\ verBefore = [i \in Ids |-> 0]
  /\ relay = NewRelay

\* _save_metadata: json.dump of self.metadata replaces metadata.json
SaveMetadata(md) == JsonFile(md)

\* faulty variant: the record is built with the default type and priority
NewRecord_Defaults(data, opt, compress, storage_data, t) ==
  [type |-> DefaultOpt.type, size |-> Len(data), compressed_size |-> Len(storage_data),
   hash |-> CalculateHash(data), compressed |-> compress,
   priority |-> DefaultOpt.priority,
   created |-> t, last_accessed |-> t, access_count |-> 0]

\* the record store_resource builds (lines 78-88); t is datetime.now()
NewRecord(data, opt, compress, storage_data, t) ==
  [type |-> opt.type, size |-> Len(data), compressed_size |-> Len(storage_data),
   hash |-> CalculateHash(data), compressed |-> compress, priority |-> opt.priority,
   created |-> t, last_accessed |-> t, access_count |-> 0]

\* faulty variant: the compress flag is recorded but the data is written as it is
StorageData_Raw(data, compress, t) == data

\* line 68: storage_data = self._compress_data(data) if compress else data
StorageData(data, compress, t) ==
  IF compress THEN CompressData(data, t) ELSE data

\* faulty variant: the increment is dropped
NextVersion_NoIncrement(versions, id) == DictGet(versions, id, 1)

\* faulty variant: the counter restarts on every store
NextVersion_Restart(versions, id) == 1

\* line 91: self.metadata["versions"].get(resource_id, 0) + 1
NextVersion(versions, id) == DictGet(versions, id, 0) + 1

\* faulty variant: the result reports the payload's length as the stored length
StoreResult_RawSize(data, storage_data, version) ==
  [size |-> Len(data), compressed_size |-> Len(data),
   version |-> version, hash |-> CalculateHash(data)]

\* lines 97-104: the success dict
StoreResult(data, storage_data, version) ==
  [size |-> Len(data), compressed_size |-> Len(storage_data),
   version |-> version, hash |-> CalculateHash(data)]

Seq_unchanged == UNCHANGED <<pc, loc, verBefore, relay>>

(***************************************************************************)
(* store_resource, the try body run to its return (lines 63-104).          *)
(***************************************************************************)
Store(id, data, opt, compress) ==
  /\ now < MaxClock
  /\ LET storage_data == StorageData(data, compress, now)
         version == NextVersion(metadata.versions, id)
         md == [resources |-> Put(metadata.resources, id,
                                  NewRecord(data, opt, compress, storage_data, now)),
                versions |-> Put(metadata.versions, id, version)]
     IN /\ files' = Put(files, FilePath(id), storage_data)
        /\ metadata' = md
        /\ disk_meta' = SaveMetadata(md)
        /\ last' = Returned("store", id, "success", "stored", stored[id].state,
                            StoreResult(data, storage_data, md.versions[id]))
        /\ ver' = [ver EXCEPT ![id] = StoreReturned(@, md.versions[id])]
        /\ stored' = [stored EXCEPT ![id] =
                        [state |-> "stored", p |-> data, raw |-> storage_data]]
  /\ now' = now + 1
  /\ Seq_unchanged

(***************************************************************************)
(* store_resource when writing the payload file raises (lines 74-75, then  *)
(* the handler of lines 106-108).  open(file_path, 'wb') either raises and *)
(* leaves the directory as it was (kept = -1), or creates/truncates the    *)
(* file, and the failed write leaves the first `kept` bytes in it.         *)
(***************************************************************************)
WriteFailureLeaves(old, path, storage_data, kept) ==
  IF kept < 0 THEN old ELSE Put(old, path, SubSeq(storage_data, 1, kept))

\* faulty variant: the metadata is updated before the payload file is written
StoreWriteFails_MetadataFirst(id, data, opt, compress, kept) ==
  /\ now < MaxClock
  /\ LET storage_data == StorageData(data, compress, now)
     IN /\ kept \in -1..(Len(storage_data) - 1)
        /\ files' = WriteFailureLeaves(files, FilePath(id), storage_data, kept)
        /\ metadata' = [resources |-> Put(metadata.resources, id,
                                          NewRecord(data, opt, compress, storage_data, now)),
                        versions |-> Put(metadata.versions, id,
                                         NextVersion(metadata.versions, id))]
  /\ last' = Returned("store", id, "error", "write_error", stored[id].state, NoResult)
  /\ stored' = [stored EXCEPT ![id] = AfterFailedStore(@)]
  /\ UNCHANGED <<disk_meta, now, ver>>
  /\ Seq_unchanged

StoreWriteFails(id, data, opt, compress, kept) ==
  /\ now < MaxClock
  /\ LET storage_data == StorageData(data, compress, now)
     IN /\ kept \in -1..(Len(storage_data) - 1)
        /\ files' = WriteFailureLeaves(files, FilePath(id), storage_data, kept)
  /\ last' = Returned("store", id, "error", "write_error", stored[id].state, NoResult)
  /\ stored' = [stored EXCEPT ![id] = AfterFailedStore(@)]
  /\ UNCHANGED <<metadata, disk_meta, now, ver>>
  /\ Seq_unchanged

(***************************************************************************)
(* get_resource (lines 110-150).                                           *)
(***************************************************************************)
\* lines 129-132; gzip.decompress raises unless it is given a gzip member
Readable(meta, raw) == meta.compressed => GzipValid(raw)
ReadData(meta, raw) == IF meta.compressed THEN DecompressData(raw) ELSE raw

\* faulty variant: the integrity check is skipped
HashMatches_Skipped(data, meta) == TRUE

\* line 135
HashMatches(data, meta) == CalculateHash(data) = meta.hash

\* lines 140-141
Accessed(meta, t) ==
  [meta EXCEPT !.last_accessed = t, !.access_count = @ + 1]

GetBranch(id) ==
  IF id \notin DOMAIN metadata.resources THEN "unknown"
  ELSE IF FilePath(id) \notin DOMAIN files THEN "no_file"
  ELSE IF ~Readable(metadata.resources[id], files[FilePath(id)]) THEN "decompress_error"
  ELSE IF ~HashMatches(ReadData(metadata.resources[id], files[FilePath(id)]),
                       metadata.resources[id]) THEN "hash_mismatch"
  ELSE "ok"

\* faulty variant: a payload file is served although the id has no record
Get_ServesOrphan(id) ==
  /\ IF GetBranch(id) = "ok"
     THEN /\ now < MaxClock
          /\ LET meta == Accessed(metadata.resources[id], now)
                 md == [metadata EXCEPT !.resources = Put(@, id, meta)]
             IN /\ metadata' = md
                /\ disk_meta' = SaveMetadata(md)
                /\ last' = Returned("get", id, "found", "ok", stored[id].state,
                              DataAndMeta(ReadData(metadata.resources[id], files[FilePath(id)]), meta))
          /\ now' = now + 1
     ELSE /\ last' = IF GetBranch(id) = "unknown" /\ FilePath(id) \in DOMAIN files
                     THEN Returned("get", id, "found", "unknown", stored[id].state,
                                   DataAndMeta(files[FilePath(id)], NoMeta))
                     ELSE Returned("get", id, "none", GetBranch(id), stored[id].state, None)
          /\ UNCHANGED <<metadata, disk_meta, now>>
  /\ UNCHANGED <<files, stored, ver>>
  /\ Seq_unchanged

\* faulty variant: the access statistics are updated before the file is looked for
Get_CountsMissing(id) ==
  /\ IF GetBranch(id) \in {"ok", "no_file"}
     THEN /\ now < MaxClock
          /\ LET meta == Accessed(metadata.resources[id], now)
                 md == [metadata EXCEPT !.resources = Put(@, id, meta)]
             IN /\ metadata' = md
                /\ disk_meta' = SaveMetadata(md)
                /\ last' = IF GetBranch(id) = "ok"
                           THEN Returned("get", id, "found", "ok", stored[id].state,
                                  DataAndMeta(ReadData(metadata.resources[id], files[FilePath(id)]), meta))
                           ELSE Returned("get", id, "none", "no_file", stored[id].state, None)
          /\ now' = now + 1
     ELSE /\ last' = Returned("get", id, "none", GetBranch(id), stored[id].state, None)
          /\ UNCHANGED <<metadata, disk_meta, now>>
  /\ UNCHANGED <<files, stored, ver>>
  /\ Seq_unchanged

Get(id) ==
  /\ IF GetBranch(id) = "ok"
     THEN /\ now < MaxClock
          /\ LET meta == Accessed(metadata.resources[id], now)
                 md == [metadata EXCEPT !.resources = Put(@, id, meta)]
             IN /\ metadata' = md
                /\ disk_meta' = SaveMetadata(md)
                /\ last' = Returned("get", id, "found", "ok", stored[id].state,
                              DataAndMeta(ReadData(metadata.resources[id], files[FilePath(id)]), meta))
          /\ now' = now + 1
     ELSE /\ last' = Returned("get", id, "none", GetBranch(id), stored[id].state, None)
          /\ UNCHANGED <<metadata, disk_meta, now>>
  /\ UNCHANGED <<files, stored, ver>>
  /\ Seq_unchanged

(***************************************************************************)
(* app.get_resource (app.py lines 47-79): the response to GET              *)
(* /api/resources/<id>, from what get_resource returned.                   *)
(***************************************************************************)
HttpGetResource(ret) ==
  IF ret.none
  THEN [code |-> 404, status |-> "error", message |-> "Resource not found",
        data |-> <<>>, metadata |-> NoMeta]
  ELSE [code |-> 200, status |-> "success", message |-> "",
        data |-> ret.data, metadata |-> ret.meta]

\* app.download_resource (app.py lines 81-101): 404, or the data as a file
HttpDownload(ret) ==
  IF ret.none
  THEN [code |-> 404, status |-> "error", message |-> "Resource not found",
        body |-> <<>>]
  ELSE [code |-> 200, status |-> "", message |-> "", body |-> ret.data]

\* faulty variant: a missing version is answered as version 0
HttpCheckVersion_Zero(status, version) ==
  [code |-> 200, status |-> "success", version |-> version]

\* app.check_resource_version (app.py lines 103-116), from check_version's
\* value (status "none": None)
HttpCheckVersion(status, version) ==
  IF status = "none"
  THEN [code |-> 404, status |-> "error", version |-> 0]
  ELSE [code |-> 200, status |-> "success", version |-> version]

\* app.delete_resource (app.py lines 155-167), from delete_resource's value
HttpDelete(success) ==
  IF success THEN [code |-> 200, status |-> "success"]
  ELSE [code |-> 404, status |-> "error"]

(***************************************************************************)
(* check_version (lines 171-173): None is status "none".                   *)
(***************************************************************************)
CheckVersionValue(versions, id) == DictGet(versions, id, 0)

\* faulty variant: looking up the version counts as an access
CheckVersion_Touches(id) ==
  /\ last' = Returned("check_version", id,
                      IF id \in DOMAIN metadata.versions THEN "found" ELSE "none",
                      "lookup", stored[id].state,
                      CheckVersionValue(metadata.versions, id))
  /\ metadata' = IF id \in DOMAIN metadata.resources
                 THEN [metadata EXCEPT !.resources[id] = Accessed(@, now)]
                 ELSE metadata
  /\ UNCHANGED <<files, disk_meta, now, stored, ver>>
  /\ Seq_unchanged

CheckVersion(id) ==
  /\ last' = Returned("check_version", id,
                      IF id \in DOMAIN metadata.versions THEN "found" ELSE "none",
                      "lookup", stored[id].state,
                      CheckVersionValue(metadata.versions, id))
  /\ UNCHANGED <<metadata, files, disk_meta, now, stored, ver>>
  /\ Seq_unchanged

(***************************************************************************)
(* list_resources (lines 152-169).                                         *)
(***************************************************************************)
NoFilter == [any |-> TRUE, type |-> ""]
TypeFilter(t) == [any |-> FALSE, type |-> t]
Filters == {NoFilter} \cup {TypeFilter(t) : t \in {DefaultOpt.type, TextOpt.type}}

\* lines 158-167
Summary(md, id) ==
  [id |-> id, type |-> md.resources[id].type, size |-> md.resources[id].size,
   compressed_size |-> md.resources[id].compressed_size,
   priority |-> md.resources[id].priority,
   version |-> DictGet(md.versions, id, 1),
   last_accessed |-> md.resources[id].last_accessed,
   access_count |-> md.resources[id].access_count]

\* faulty variant: the listing is sorted without reverse=True
RECURSIVE SortedByLastAccessed_Ascending(_)
SortedByLastAccessed_Ascending(S) ==
  IF S = {} THEN <<>>
  ELSE LET m == CHOOSE x \in S : \A y \in S : x.last_accessed <= y.last_accessed
       IN <<m>> \o SortedByLastAccessed_Ascending(S \ {m})

\* line 169: sorted(..., key=last_accessed, reverse=True)
RECURSIVE SortedByLastAccessed(_)
SortedByLastAccessed(S) ==
  IF S = {} THEN <<>>
  ELSE LET m == CHOOSE x \in S : \A y \in S : x.last_accessed >= y.last_accessed
       IN <<m>> \o SortedByLastAccessed(S \ {m})

\* faulty variant: the type filter is ignored
ListResources_Unfiltered(md, filter) ==
  SortedByLastAccessed({Summary(md, id) : id \in DOMAIN md.resources})

ListResources(md, filter) ==
  SortedByLastAccessed({Summary(md, id) :
     id \in {i \in DOMAIN md.resources :
               filter.any \/ md.resources[i].type = filter.type}})

\* app.list_resources (app.py lines 34-41)
HttpListResources(resources) ==
  [code |-> 200, status |-> "success", resources |-> resources,
   count |-> Len(resources)]

List(filter) ==
  /\ last' = Returned("list", "", "success", "listed", "", ListResources(metadata, filter))
  /\ UNCHANGED <<metadata, files, disk_meta, now, stored, ver>>
  /\ Seq_unchanged

(***************************************************************************)
(* get_storage_stats (lines 199-215).  A quotient is kept as the pair of   *)
(* its numerator and denominator.                                          *)
(***************************************************************************)
\* faulty variant: total_compressed adds up the size field as well
RECURSIVE SumOver_SizeOnly(_, _, _)
SumOver_SizeOnly(resources, keys, field) ==
  IF keys = {} THEN 0
  ELSE LET k == CHOOSE x \in keys : TRUE
       IN resources[k].size + SumOver_SizeOnly(resources, keys \ {k}, field)

RECURSIVE SumOver(_, _, _)
SumOver(resources, keys, field) ==
  IF keys = {} THEN 0
  ELSE LET k == CHOOSE x \in keys : TRUE
       IN (IF field = "size" THEN resources[k].size ELSE resources[k].compressed_size)
          + SumOver(resources, keys \ {k}, field)

StorageStats(md) ==
  LET total_size == SumOver(md.resources, DOMAIN md.resources, "size")
      total_compressed == SumOver(md.resources, DOMAIN md.resources, "compressed_size")
  IN [resource_count |-> Cardinality(DOMAIN md.resources),
      total_size |-> total_size,
      total_compressed_size |-> total_compressed,
      compression_ratio |-> IF total_size > 0
                            THEN [num |-> total_compressed, den |-> total_size]
                            ELSE [num |-> 0, den |-> 1],
      disk_usage_mb |-> [num |-> total_compressed, den |-> 1024 * 1024]]

Stats ==
  /\ last' = Returned("stats", "", "success", "stats", "", StorageStats(metadata))
  /\ UNCHANGED <<metadata, files, disk_meta, now, stored, ver>>
  /\ Seq_unchanged

(***************************************************************************)
(* app.get_resource_info (app.py lines 189-208).                           *)
(***************************************************************************)
InfoResponse(md, id) ==
  IF id \notin DOMAIN md.resources
  THEN [code |-> 404, status |-> "error", metadata |-> NoMeta, version |-> 0]
  ELSE [code |-> 200, status |-> "success", metadata |-> md.resources[id],
        version |-> DictGet(md.versions, id, 1)]

Info(id) ==
  /\ last' = Returned("info", id, InfoResponse(metadata, id).status, "info",
                      stored[id].state, InfoResponse(metadata, id))
  /\ UNCHANGED <<metadata, files, disk_meta, now, stored, ver>>
  /\ Seq_unchanged

(***************************************************************************)
(* delete_resource (lines 175-197).                                        *)
(***************************************************************************)
\* faulty variant: the version counter is left behind
DeleteEntries_KeepVersion(md, id) ==
  [resources |-> Del(md.resources, id), versions |-> md.versions]

\* lines 186-188
DeleteEntries(md, id) ==
  [resources |-> Del(md.resources, id), versions |-> Del(md.versions, id)]

Delete(id) ==
  /\ IF id \notin DOMAIN metadata.resources
     THEN /\ last' = Returned("delete", id, "false", "unknown", stored[id].state, FALSE)
          /\ stored' = [stored EXCEPT ![id] = AfterDisturbance(@)]
          /\ UNCHANGED <<metadata, files, disk_meta, ver>>
     ELSE /\ files' = Del(files, FilePath(id))
          /\ metadata' = DeleteEntries(metadata, id)
          /\ disk_meta' = SaveMetadata(DeleteEntries(metadata, id))
          /\ last' = Returned("delete", id, "true", "deleted", stored[id].state, TRUE)
          /\ ver' = [ver EXCEPT ![id] = DeleteReturnedTrue(@)]
          /\ stored' = [stored EXCEPT ![id] = NoStored]
  /\ UNCHANGED now
  /\ Seq_unchanged

\* os.remove raises (line 184): the handler of lines 195-197 returns False
DeleteRemoveFails(id) ==
  /\ now < MaxClock
  /\ id \in DOMAIN metadata.resources
  /\ FilePath(id) \in DOMAIN files
  /\ last' = Returned("delete", id, "false", "remove_error", stored[id].state, FALSE)
  /\ stored' = [stored EXCEPT ![id] = AfterDisturbance(@)]
  /\ UNCHANGED <<metadata, files, disk_meta, now, ver>>
  /\ Seq_unchanged

(***************************************************************************)
(* The environment: another process rewrites or removes a payload file.    *)
(* What it writes is a raw payload or a gzip member whose header carries   *)
(* no timestamp (MTIME = 0).                                               *)
(***************************************************************************)
ExternalContents == Payloads \cup {GzipCompress(q, 0) : q \in Payloads}

ExternalWrite(id, raw) ==
  /\ now < MaxClock
  /\ FilePath(id) \in DOMAIN files
  /\ raw /= files[FilePath(id)]
  /\ files' = Put(files, FilePath(id), raw)
  /\ stored' = [stored EXCEPT ![id] = AfterExternalWrite(@, raw)]
  /\ UNCHANGED <<metadata, disk_meta, now, last, ver>>
  /\ Seq_unchanged

ExternalRemove(id) ==
  /\ now < MaxClock
  /\ FilePath(id) \in DOMAIN files
  /\ files' = Del(files, FilePath(id))
  /\ stored' = [stored EXCEPT ![id] = AfterDisturbance(@)]
  /\ UNCHANGED <<metadata, disk_meta, now, last, ver>>
  /\ Seq_unchanged

Next ==
  \/ \E id \in Ids, a \in StoreArgs : Store(id, a.data, a.opt, a.compress)
  \/ \E id \in Ids : Get(id)
  \/ \E id \in Ids : CheckVersion(id)
  \/ \E filter \in Filters : List(filter)
  \/ Stats
  \/ \E id \in Ids : Info(id)
  \/ \E id \in Ids : Delete(id)

Spec == Init /\ [][Next]_vars

NextEnv ==
  \/ \E id \in EnvIds, a \in EnvStoreArgs : Store(id, a.data, a.opt, a.compress)
  \/ \E id \in EnvIds, a \in EnvStoreArgs, kept \in -1..(MaxLen + 3) :
       StoreWriteFails(id, a.data, a.opt, a.compress, kept)
  \/ \E id \in EnvIds : Get(id)
  \/ \E id \in EnvIds : CheckVersion(id)
  \/ \E id \in EnvIds : Delete(id)
  \/ \E id \in EnvIds : DeleteRemoveFails(id)
  \/ \E id \in EnvIds, raw \in ExternalContents : ExternalWrite(id, raw)
  \/ \E id \in EnvIds : ExternalRemove(id)

SpecEnv == Init /\ [][NextEnv]_vars

(***************************************************************************)
(* The metadata file across failures and restarts (one id).                *)
(*                                                                         *)
(* _save_metadata catches every exception of open and json.dump and only   *)
(* logs it (lines 43-44).  open(self.metadata_file, 'w') either raises and *)
(* leaves the file as it was ("open"), or truncates it and json.dump or    *)
(* the close raises, leaving text cut short ("write").                     *)
(***************************************************************************)
SaveFailures == {"open", "write"}

SaveFailureLeaves(file, how) == IF how = "open" THEN file ELSE Unparseable

\* store_resource when _save_metadata fails (line 93): lines 97-104 follow
StoreSaveFails(id, data, opt, compress, how) ==
  /\ now < MaxClock
  /\ LET storage_data == StorageData(data, compress, now)
         version == NextVersion(metadata.versions, id)
         md == [resources |-> Put(metadata.resources, id,
                                  NewRecord(data, opt, compress, storage_data, now)),
                versions |-> Put(metadata.versions, id, version)]
     IN /\ files' = Put(files, FilePath(id), storage_data)
        /\ metadata' = md
        /\ disk_meta' = SaveFailureLeaves(disk_meta, how)
        /\ last' = Returned("store", id, "success", "save_error", stored[id].state,
                            StoreResult(data, storage_data, md.versions[id]))
        /\ ver' = [ver EXCEPT ![id] = StoreReturned(@, md.versions[id])]
        /\ stored' = [stored EXCEPT ![id] =
                        [state |-> "stored", p |-> data, raw |-> storage_data]]
  /\ now' = now + 1
  /\ Seq_unchanged

\* get_resource when _save_metadata fails (line 142): line 146 follows
GetSaveFails(id, how) ==
  /\ now < MaxClock
  /\ GetBranch(id) = "ok"
  /\ LET meta == Accessed(metadata.resources[id], now)
     IN /\ metadata' = [metadata EXCEPT !.resources = Put(@, id, meta)]
        /\ last' = Returned("get", id, "found", "save_error", stored[id].state,
                      DataAndMeta(ReadData(metadata.resources[id], files[FilePath(id)]), meta))
  /\ disk_meta' = SaveFailureLeaves(disk_meta, how)
  /\ now' = now + 1
  /\ UNCHANGED <<files, stored, ver>>
  /\ Seq_unchanged

\* delete_resource when _save_metadata fails (line 190): line 193 follows
DeleteSaveFails(id, how) ==
  /\ id \in DOMAIN metadata.resources
  /\ files' = Del(files, FilePath(id))
  /\ metadata' = DeleteEntries(metadata, id)
  /\ disk_meta' = SaveFailureLeaves(disk_meta, how)
  /\ last' = Returned("delete", id, "true", "save_error", stored[id].state, TRUE)
  /\ ver' = [ver EXCEPT ![id] = DeleteReturnedTrue(@)]
  /\ stored' = [stored EXCEPT ![id] = NoStored]
  /\ UNCHANGED now
  /\ Seq_unchanged

\* history: the file is one a _save_metadata call wrote to its end
WrittenBySave(file) == file.kind = "json" /\ Loaded(file.value)

\* The process is started again: __init__ loads metadata.json (line 26).
\* last.value keeps self.metadata as it was when the process stopped.
Restart ==
  /\ metadata' = LoadMetadata(disk_meta)
  /\ last' = Returned("restart", "", "", "loaded",
                      IF WrittenBySave(disk_meta) THEN "saved" ELSE disk_meta.kind,
                      metadata)
  /\ stored' = [i \in DOMAIN stored |-> AfterDisturbance(stored[i])]
  /\ UNCHANGED <<files, disk_meta, now, ver>>
  /\ Seq_unchanged

(***************************************************************************)
(* The methods when self.metadata has no "resources" key (metadata.json    *)
(* held the JSON object {}): self.metadata["resources"] raises KeyError.   *)
(***************************************************************************)
\* store_resource: the payload file is written (lines 74-75), line 78
\* raises, the handler of lines 106-108 returns the error dict
StoreKeyError(id, data, opt, compress) ==
  /\ ~Loaded(metadata)
  /\ files' = Put(files, FilePath(id), StorageData(data, compress, now))
  /\ last' = Returned("store", id, "error", "key_error", stored[id].state, NoResult)
  /\ stored' = [stored EXCEPT ![id] = AfterFailedStore(@)]
  /\ UNCHANGED <<metadata, disk_meta, now, ver>>
  /\ Seq_unchanged

\* get_resource: line 113 raises, the handler of lines 148-150 returns None
GetKeyError(id) ==
  /\ ~Loaded(metadata)
  /\ last' = Returned("get", id, "none", "key_error", stored[id].state, None)
  /\ UNCHANGED <<metadata, files, disk_meta, now, stored, ver>>
  /\ Seq_unchanged

\* delete_resource: line 178 raises, the handler of lines 195-197 returns False
DeleteKeyError(id) ==
  /\ ~Loaded(metadata)
  /\ last' = Returned("delete", id, "false", "key_error", stored[id].state, FALSE)
  /\ stored' = [stored EXCEPT ![id] = AfterDisturbance(@)]
  /\ UNCHANGED <<metadata, files, disk_meta, now, ver>>
  /\ Seq_unchanged

\* check_version, list_resources and get_storage_stats have no handler: the
\* method raises KeyError to the route of app.py, which answers 500 (the
\* value); so does the KeyError of get_resource_info's line 193
UnguardedReads == {"check_version", "list", "stats", "info"}

ReadKeyError(op, id) ==
  /\ ~Loaded(metadata)
  /\ last' = Returned(op, id, "raised", "key_error", stored[id].state, 500)
  /\ UNCHANGED <<metadata, files, disk_meta, now, stored, ver>>
  /\ Seq_unchanged

\* the store calls of SpecDisk: one payload, stored as it is or compressed
DiskStoreArgs == [data : {<<1>>}, opt : {DefaultOpt}, compress : BOOLEAN]
\* a failed payload write leaves no new file, an empty one or one byte
DiskKept == {-1, 0, 1}

\* metadata.json at start-up: absent, not JSON, or the JSON object {}
StartFiles == {NoFile, Unparseable, JsonFile(EmptyDict)}

InitDisk ==
  /\ disk_meta \in StartFiles
  /\ metadata = LoadMetadata(disk_meta)
  /\ files = EmptyDict
  /\ now = 1
  /\ last = Returned("init", "", "", "", "", <<>>)
  /\ stored = [i \in Ids |-> NoStored]
  /\ ver = [i \in Ids |-> NoVersions]
  /\ pc = [t \in Threads |-> "idle"]
  /\ loc = [t \in Threads |-> NoCall]
  /\ verBefore = [i \in Ids |-> 0]
  /\ relay = NewRelay

NextDisk ==
  \/ \E id \in EnvIds, a \in DiskStoreArgs :
       Loaded(metadata) /\ Store(id, a.data, a.opt, a.compress)
  \/ \E id \in EnvIds, a \in DiskStoreArgs, kept \in DiskKept :
       Loaded(metadata) /\ StoreWriteFails(id, a.data, a.opt, a.compress, kept)
  \/ \E id \in EnvIds, a \in DiskStoreArgs, how \in SaveFailures :
       Loaded(metadata) /\ StoreSaveFails(id, a.data, a.opt, a.compress, how)
  \/ \E id \in EnvIds : Loaded(metadata) /\ Get(id)
  \/ \E id \in EnvIds, how \in SaveFailures : Loaded(metadata) /\ GetSaveFails(id, how)
  \/ \E id \in EnvIds : Loaded(metadata) /\ CheckVersion(id)
  \/ \E id \in EnvIds : Loaded(metadata) /\ Delete(id)
  \/ \E id \in EnvIds, how \in SaveFailures : Loaded(metadata) /\ DeleteSaveFails(id, how)
  \/ Restart
  \/ \E id \in EnvIds, a \in DiskStoreArgs : StoreKeyError(id, a.data, a.opt, a.compress)
  \/ \E id \in EnvIds : GetKeyError(id)
  \/ \E id \in EnvIds : DeleteKeyError(id)
  \/ \E op \in UnguardedReads, id \in EnvIds : ReadKeyError(op, id)

SpecDisk == InitDisk /\ [][NextDisk]_vars

(***************************************************************************)
(* Listings of three resources: stores of the empty payload under either   *)
(* type, gets, deletes and listings under every filter.  The clock reads 0 *)
(* at start, which leaves three time-stamps below MaxClock.                *)
(***************************************************************************)
ListIds == {"a", "b", "c"}
ListStoreArgs == [data : {<<>>}, opt : {DefaultOpt, TextOpt}, compress : {FALSE}]

InitList ==
  /\ metadata = EmptyMetadata
  /\ files = EmptyDict
  /\ disk_meta = NoFile
  /\ now = 0
  /\ last = Returned("init", "", "", "", "", <<>>)
  /\ stored = [i \in ListIds |-> NoStored]
  /\ ver = [i \in ListIds |-> NoVersions]
  /\ pc = [t \in Threads |-> "idle"]
  /\ loc = [t \in Threads |-> NoCall]
  /\ verBefore = [i \in ListIds |-> 0]
  /\ relay = NewRelay

NextList ==
  \/ \E id \in ListIds, a \in ListStoreArgs : Store(id, a.data, a.opt, a.compress)
  \/ \E id \in ListIds : Get(id)
  \/ \E filter \in Filters : List(filter)
  \/ \E id \in ListIds : Delete(id)

SpecList == InitList /\ [][NextList]_vars

(***************************************************************************)
(* Concurrent requests.  Each thread serves one request on the id "a";     *)
(* a step is one statement that reads or writes the shared dictionaries or *)
(* the payload file.  Nothing in resource_manager.py or app.py takes a     *)
(* lock.  The clock may advance between any two steps.                     *)
(***************************************************************************)
ConcIds == {"a"}
ConcCalls ==
  [op : {"store"}, id : ConcIds, data : Payloads, compress : BOOLEAN]
    \cup [op : {"delete", "info", "check_version", "list"}, id : ConcIds,
          data : {<<>>}, compress : {FALSE}]

\* the manager is idle and either holds nothing or holds "a", stored once
InitConc ==
  /\ \/ /\ metadata = EmptyMetadata
        /\ files = EmptyDict
        /\ now = 1
     \/ /\ metadata = [resources |-> Put(EmptyDict, "a",
                          NewRecord(<<0>>, DefaultOpt, FALSE, <<0>>, 1)),
                       versions |-> Put(EmptyDict, "a", 1)]
        /\ files = Put(EmptyDict, FilePath("a"), <<0>>)
        /\ now = 2
  /\ disk_meta = SaveMetadata(metadata)
  /\ last = Returned("init", "", "", "", "", <<>>)
  /\ stored = [i \in Ids |-> NoStored]
  /\ ver = [i \in Ids |-> NoVersions]
  /\ pc = [t \in Threads |-> "idle"]
  /\ loc = [t \in Threads |-> NoCall]
  /\ verBefore = [i \in Ids |-> DictGet(metadata.versions, i, 0)]
  /\ relay = NewRelay

Conc_unchanged == UNCHANGED <<last, stored, ver, verBefore, relay>>

Goto(t, label) == pc' = [pc EXCEPT ![t] = label]
Return(t, status, version) ==
  /\ pc' = [pc EXCEPT ![t] = "done"]
  /\ loc' = [loc EXCEPT ![t].status = status, ![t].version = version]

FirstStatement(op) ==
  CASE op = "store" -> "s_open"
    [] op = "delete" -> "d_check"
    [] op = "info" -> "i_check"
    [] op = "check_version" -> "c_get"
    [] op = "list" -> "l_list"
    [] op = "get" -> "g_check"

Call(t, c) ==
  /\ pc[t] = "idle"
  /\ pc' = [pc EXCEPT ![t] = FirstStatement(c.op)]
  /\ loc' = [loc EXCEPT ![t] = [NoCall EXCEPT !.op = c.op, !.id = c.id,
                                             !.data = c.data, !.compress = c.compress]]
  /\ UNCHANGED <<metadata, files, disk_meta, now>>
  /\ Conc_unchanged

Tick ==
  /\ now < MaxClock
  /\ now' = now + 1
  /\ UNCHANGED <<metadata, files, disk_meta, pc, loc>>
  /\ Conc_unchanged

\* ---- store_resource ----
\* lines 65-74: storage_data is computed, open(file_path, 'wb') creates or
\* truncates the file
StoreOpen(t) ==
  /\ pc[t] = "s_open"
  /\ files' = Put(files, FilePath(loc[t].id), <<>>)
  /\ loc' = [loc EXCEPT ![t].raw = StorageData(loc[t].data, loc[t].compress, now)]
  /\ Goto(t, "s_write")
  /\ UNCHANGED <<metadata, disk_meta, now>>
  /\ Conc_unchanged

\* what a file holds after `raw` is written at its start
Overwritten(old, raw) ==
  IF Len(old) > Len(raw) THEN raw \o SubSeq(old, Len(raw) + 1, Len(old)) ELSE raw

\* line 75 and the close: the bytes go to the file opened, which a delete
\* may have removed from the directory meanwhile
StoreWrite(t) ==
  /\ pc[t] = "s_write"
  /\ files' = IF loc[t].unlinked \/ FilePath(loc[t].id) \notin DOMAIN files THEN files
              ELSE Put(files, FilePath(loc[t].id), Overwritten(files[FilePath(loc[t].id)], loc[t].raw))
  /\ Goto(t, "s_record")
  /\ UNCHANGED <<metadata, disk_meta, now, loc>>
  /\ Conc_unchanged

\* the threads whose resource_meta refers to the dict that is the record of
\* the id (get_resource between line 126 and its return)
HoldsRecord(u, id) ==
  /\ loc[u].op = "get" /\ loc[u].id = id /\ ~loc[u].detached
  /\ pc[u] \in {"g_verify", "g_touch", "g_count_read", "g_count_write", "g_save",
               "g_dump", "g_close"}

\* the record of the id is replaced or deleted: the dict stays alive in the
\* threads that refer to it
Detached(id) ==
  [u \in Threads |->
     IF HoldsRecord(u, id)
     THEN [loc[u] EXCEPT !.detached = TRUE, !.meta = metadata.resources[id]]
     ELSE loc[u]]

\* lines 78-88
StoreRecord(t) ==
  /\ pc[t] = "s_record"
  /\ metadata' = [metadata EXCEPT !.resources =
        Put(@, loc[t].id, NewRecord(loc[t].data, DefaultOpt, loc[t].compress,
                                    loc[t].raw, now))]
  /\ Goto(t, "s_version_read")
  /\ loc' = IF loc[t].id \in DOMAIN metadata.resources
             THEN Detached(loc[t].id) ELSE loc
  /\ UNCHANGED <<files, disk_meta, now>>
  /\ Conc_unchanged

\* line 91, the right-hand side
StoreReadVersion(t) ==
  /\ pc[t] = "s_version_read"
  /\ loc' = [loc EXCEPT ![t].tmp = NextVersion(metadata.versions, loc[t].id)]
  /\ Goto(t, "s_version_write")
  /\ UNCHANGED <<metadata, files, disk_meta, now>>
  /\ Conc_unchanged

\* line 91, the assignment
StoreWriteVersion(t) ==
  /\ pc[t] = "s_version_write"
  /\ metadata' = [metadata EXCEPT !.versions = Put(@, loc[t].id, loc[t].tmp)]
  /\ Goto(t, "s_save")
  /\ UNCHANGED <<files, disk_meta, now, loc>>
  /\ Conc_unchanged

\* line 93
StoreSave(t) ==
  /\ pc[t] = "s_save"
  /\ disk_meta' = SaveMetadata(metadata)
  /\ Goto(t, "s_return")
  /\ UNCHANGED <<metadata, files, now, loc>>
  /\ Conc_unchanged

\* lines 97-104; line 102 reads versions[resource_id] again: a KeyError
\* there is caught at line 106 and the error dict is returned
StoreReturn(t) ==
  /\ pc[t] = "s_return"
  /\ IF loc[t].id \in DOMAIN metadata.versions
     THEN Return(t, "success", metadata.versions[loc[t].id])
     ELSE Return(t, "error", 0)
  /\ UNCHANGED <<metadata, files, disk_meta, now>>
  /\ Conc_unchanged

\* ---- delete_resource ----
\* line 178
DeleteCheck(t) ==
  /\ pc[t] = "d_check"
  /\ IF loc[t].id \in DOMAIN metadata.resources
     THEN Goto(t, "d_exists") /\ UNCHANGED loc
     ELSE Return(t, "false", 0)
  /\ UNCHANGED <<metadata, files, disk_meta, now>>
  /\ Conc_unchanged

\* line 183
DeleteExists(t) ==
  /\ pc[t] = "d_exists"
  /\ Goto(t, IF FilePath(loc[t].id) \in DOMAIN files THEN "d_remove" ELSE "d_record")
  /\ UNCHANGED <<metadata, files, disk_meta, now, loc>>
  /\ Conc_unchanged

\* line 184: os.remove raises FileNotFoundError when the file has gone
DeleteRemove(t) ==
  /\ pc[t] = "d_remove"
  /\ IF FilePath(loc[t].id) \in DOMAIN files
     THEN /\ files' = Del(files, FilePath(loc[t].id))
          /\ pc' = [pc EXCEPT ![t] = "d_record"]
          /\ loc' = [u \in Threads |->
                       IF pc[u] = "s_write" /\ loc[u].id = loc[t].id
                       THEN [loc[u] EXCEPT !.unlinked = TRUE] ELSE loc[u]]
     ELSE /\ Return(t, "false", 0)
          /\ UNCHANGED files
  /\ UNCHANGED <<metadata, disk_meta, now>>
  /\ Conc_unchanged

\* line 186: del raises KeyError when the record has gone
DeleteRecord(t) ==
  /\ pc[t] = "d_record"
  /\ IF loc[t].id \in DOMAIN metadata.resources
     THEN /\ metadata' = [metadata EXCEPT !.resources = Del(@, loc[t].id)]
          /\ Goto(t, "d_version_check")
          /\ loc' = Detached(loc[t].id)
     ELSE /\ Return(t, "false", 0)
          /\ UNCHANGED metadata
  /\ UNCHANGED <<files, disk_meta, now>>
  /\ Conc_unchanged

\* line 187
DeleteVersionCheck(t) ==
  /\ pc[t] = "d_version_check"
  /\ Goto(t, IF loc[t].id \in DOMAIN metadata.versions THEN "d_version" ELSE "d_save")
  /\ UNCHANGED <<metadata, files, disk_meta, now, loc>>
  /\ Conc_unchanged

\* line 188
DeleteVersion(t) ==
  /\ pc[t] = "d_version"
  /\ IF loc[t].id \in DOMAIN metadata.versions
     THEN /\ metadata' = [metadata EXCEPT !.versions = Del(@, loc[t].id)]
          /\ Goto(t, "d_save")
          /\ UNCHANGED loc
     ELSE /\ Return(t, "false", 0)
          /\ UNCHANGED metadata
  /\ UNCHANGED <<files, disk_meta, now>>
  /\ Conc_unchanged

\* lines 190-193
DeleteSave(t) ==
  /\ pc[t] = "d_save"
  /\ disk_meta' = SaveMetadata(metadata)
  /\ Return(t, "true", 0)
  /\ UNCHANGED <<metadata, files, now>>
  /\ Conc_unchanged

\* ---- app.get_resource_info ----
\* app.py line 193
InfoCheck(t) ==
  /\ pc[t] = "i_check"
  /\ IF loc[t].id \in DOMAIN metadata.resources
     THEN Goto(t, "i_metadata") /\ UNCHANGED loc
     ELSE Return(t, "error", 0)
  /\ UNCHANGED <<metadata, files, disk_meta, now>>
  /\ Conc_unchanged

\* app.py line 196: a KeyError is answered with status 500
InfoMetadata(t) ==
  /\ pc[t] = "i_metadata"
  /\ IF loc[t].id \in DOMAIN metadata.resources
     THEN /\ Goto(t, "i_version")
          /\ loc' = [loc EXCEPT ![t].sawRecord = TRUE]
     ELSE Return(t, "error", 0)
  /\ UNCHANGED <<metadata, files, disk_meta, now>>
  /\ Conc_unchanged

\* app.py lines 197-204
InfoVersion(t) ==
  /\ pc[t] = "i_version"
  /\ pc' = [pc EXCEPT ![t] = "done"]
  /\ loc' = [loc EXCEPT ![t].status = "success",
                        ![t].version = DictGet(metadata.versions, loc[t].id, 1),
                        ![t].sawVersion = loc[t].id \in DOMAIN metadata.versions]
  /\ UNCHANGED <<metadata, files, disk_meta, now>>
  /\ Conc_unchanged

\* ---- check_version: one dictionary lookup ----
CheckVersionStep(t) ==
  /\ pc[t] = "c_get"
  /\ pc' = [pc EXCEPT ![t] = "done"]
  /\ loc' = [loc EXCEPT
       ![t].status = IF loc[t].id \in DOMAIN metadata.versions THEN "found" ELSE "none",
       ![t].version = CheckVersionValue(metadata.versions, loc[t].id),
       ![t].sawVersion = loc[t].id \in DOMAIN metadata.versions,
       ![t].sawRecord = loc[t].id \in DOMAIN metadata.resources]
  /\ UNCHANGED <<metadata, files, disk_meta, now>>
  /\ Conc_unchanged

\* ---- list_resources: the summary of the id, built in one step ----
ListStep(t) ==
  /\ pc[t] = "l_list"
  /\ pc' = [pc EXCEPT ![t] = "done"]
  /\ loc' = [loc EXCEPT
       ![t].status = "success",
       ![t].version = IF loc[t].id \in DOMAIN metadata.resources
                      THEN Summary(metadata, loc[t].id).version ELSE 0,
       ![t].sawRecord = loc[t].id \in DOMAIN metadata.resources,
       ![t].sawVersion = /\ loc[t].id \in DOMAIN metadata.resources
                         /\ loc[t].id \in DOMAIN metadata.versions]
  /\ UNCHANGED <<metadata, files, disk_meta, now>>
  /\ Conc_unchanged

NextConc ==
  \/ \E t \in Threads, c \in ConcCalls : Call(t, c)
  \/ Tick
  \/ \E t \in Threads : StoreOpen(t)
  \/ \E t \in Threads : StoreWrite(t)
  \/ \E t \in Threads : StoreRecord(t)
  \/ \E t \in Threads : StoreReadVersion(t)
  \/ \E t \in Threads : StoreWriteVersion(t)
  \/ \E t \in Threads : StoreSave(t)
  \/ \E t \in Threads : StoreReturn(t)
  \/ \E t \in Threads : DeleteCheck(t)
  \/ \E t \in Threads : DeleteExists(t)
  \/ \E t \in Threads : DeleteRemove(t)
  \/ \E t \in Threads : DeleteRecord(t)
  \/ \E t \in Threads : DeleteVersionCheck(t)
  \/ \E t \in Threads : DeleteVersion(t)
  \/ \E t \in Threads : DeleteSave(t)
  \/ \E t \in Threads : InfoCheck(t)
  \/ \E t \in Threads : InfoMetadata(t)
  \/ \E t \in Threads : InfoVersion(t)
  \/ \E t \in Threads : CheckVersionStep(t)
  \/ \E t \in Threads : ListStep(t)

SpecConc == InitConc /\ [][NextConc]_vars

(***************************************************************************)
(* get_resource beside concurrent stores and gets of the id.               *)
(***************************************************************************)
\* line 113
GetCheck(t) ==
  /\ pc[t] = "g_check"
  /\ IF loc[t].id \in DOMAIN metadata.resources
     THEN Goto(t, "g_exists") /\ UNCHANGED loc
     ELSE Return(t, "none", 0)
  /\ UNCHANGED <<metadata, files, disk_meta, now>>
  /\ Conc_unchanged

\* line 118
GetExists(t) ==
  /\ pc[t] = "g_exists"
  /\ IF FilePath(loc[t].id) \in DOMAIN files
     THEN Goto(t, "g_read") /\ UNCHANGED loc
     ELSE Return(t, "none", 0)
  /\ UNCHANGED <<metadata, files, disk_meta, now>>
  /\ Conc_unchanged

\* lines 122-123: the bytes the file holds now; open raises when it has gone
GetRead(t) ==
  /\ pc[t] = "g_read"
  /\ IF FilePath(loc[t].id) \in DOMAIN files
     THEN /\ pc' = [pc EXCEPT ![t] = "g_meta"]
          /\ loc' = [loc EXCEPT ![t].raw = files[FilePath(loc[t].id)]]
     ELSE Return(t, "none", 0)
  /\ UNCHANGED <<metadata, files, disk_meta, now>>
  /\ Conc_unchanged

\* line 126: a KeyError when the record has gone
GetMeta(t) ==
  /\ pc[t] = "g_meta"
  /\ IF loc[t].id \in DOMAIN metadata.resources
     THEN /\ pc' = [pc EXCEPT ![t] = "g_verify"]
          /\ loc' = [loc EXCEPT ![t].meta = metadata.resources[loc[t].id],
                                ![t].detached = FALSE]
     ELSE Return(t, "none", 0)
  /\ UNCHANGED <<metadata, files, disk_meta, now>>
  /\ Conc_unchanged

\* lines 129-137, on the thread's own storage_data and resource_meta
GetVerify(t) ==
  /\ pc[t] = "g_verify"
  /\ IF /\ Readable(loc[t].meta, loc[t].raw)
        /\ HashMatches(ReadData(loc[t].meta, loc[t].raw), loc[t].meta)
     THEN /\ pc' = [pc EXCEPT ![t] = "g_touch"]
          /\ loc' = [loc EXCEPT ![t].out = ReadData(loc[t].meta, loc[t].raw)]
     ELSE Return(t, "none", 0)
  /\ UNCHANGED <<metadata, files, disk_meta, now>>
  /\ Conc_unchanged

\* the dict resource_meta refers to, and an assignment to one of its items
RecordHeld(t) ==
  IF loc[t].detached THEN loc[t].meta ELSE metadata.resources[loc[t].id]

SetRecordHeld(t, rec) ==
  IF loc[t].detached
  THEN /\ loc' = [loc EXCEPT ![t].meta = rec]
       /\ UNCHANGED metadata
  ELSE /\ metadata' = [metadata EXCEPT !.resources[loc[t].id] = rec]
       /\ UNCHANGED loc

\* line 140
GetTouch(t) ==
  /\ pc[t] = "g_touch"
  /\ SetRecordHeld(t, [RecordHeld(t) EXCEPT !.last_accessed = now])
  /\ Goto(t, "g_count_read")
  /\ UNCHANGED <<files, disk_meta, now>>
  /\ Conc_unchanged

\* line 141, resource_meta["access_count"] += 1: the item is read ...
GetCountRead(t) ==
  /\ pc[t] = "g_count_read"
  /\ pc' = [pc EXCEPT ![t] = "g_count_write"]
  /\ loc' = [loc EXCEPT ![t].tmp = RecordHeld(t).access_count]
  /\ UNCHANGED <<metadata, files, disk_meta, now>>
  /\ Conc_unchanged

\* ... and assigned
GetCountWrite(t) ==
  /\ pc[t] = "g_count_write"
  /\ SetRecordHeld(t, [RecordHeld(t) EXCEPT !.access_count = loc[t].tmp + 1])
  /\ Goto(t, "g_save")
  /\ UNCHANGED <<files, disk_meta, now>>
  /\ Conc_unchanged

\* lines 142-146: (data, resource_meta) is returned
GetSave(t) ==
  /\ pc[t] = "g_save"
  /\ disk_meta' = SaveMetadata(metadata)
  /\ pc' = [pc EXCEPT ![t] = "done"]
  /\ loc' = [loc EXCEPT ![t].status = "found", ![t].meta = RecordHeld(t)]
  /\ UNCHANGED <<metadata, files, now>>
  /\ Conc_unchanged

ReadCalls ==
  [op : {"store"}, id : ConcIds, data : Payloads, compress : BOOLEAN]
    \cup [op : {"get"}, id : ConcIds, data : {<<>>}, compress : {FALSE}]

NextRead ==
  \/ \E t \in Threads, c \in ReadCalls : Call(t, c)
  \/ Tick
  \/ \E t \in Threads : StoreOpen(t)
  \/ \E t \in Threads : StoreWrite(t)
  \/ \E t \in Threads : StoreRecord(t)
  \/ \E t \in Threads : StoreReadVersion(t)
  \/ \E t \in Threads : StoreWriteVersion(t)
  \/ \E t \in Threads : StoreSave(t)
  \/ \E t \in Threads : StoreReturn(t)
  \/ \E t \in Threads : GetCheck(t)
  \/ \E t \in Threads : GetExists(t)
  \/ \E t \in Threads : GetRead(t)
  \/ \E t \in Threads : GetMeta(t)
  \/ \E t \in Threads : GetVerify(t)
  \/ \E t \in Threads : GetTouch(t)
  \/ \E t \in Threads : GetCountRead(t)
  \/ \E t \in Threads : GetCountWrite(t)
  \/ \E t \in Threads : GetSave(t)

SpecRead == InitConc /\ [][NextRead]_vars

(***************************************************************************)
(* Properties.                                                             *)
(***************************************************************************)

\* C1 (SpecEnv): a get of an id whose last store succeeded, with no other
\* store or delete of the id and no change of its file since, returns the
\* payload that store was given and a record whose hash is that payload's.
C1_StoreGetRoundTrip ==
  (last.op = "get" /\ last.env = "stored") =>
     /\ ~last.value.none
     /\ last.value.data = stored[last.id].p
     /\ last.value.meta.hash = CalculateHash(stored[last.id].p)

\* the empty payload, stored compressed, read back
C1_Witness ==
  /\ last.op = "get" /\ last.env = "stored"
  /\ last.value.data = <<>> /\ last.value.meta.compressed
  /\ stored[last.id].p = <<>>

\* C2 (Spec): the first successful store of a fresh id returns 1, each later
\* one returns 1 more than the one before it, and check_version gives the
\* version the latest store returned.
C2_Versioning ==
  /\ \A id \in Ids :
       ~ver[id].fresh =>
          /\ ver[id].last = ver[id].prev + 1
          /\ id \in DOMAIN metadata.versions
          /\ CheckVersionValue(metadata.versions, id) = ver[id].last
  /\ (last.op = "check_version" /\ ~ver[last.id].fresh) =>
        (last.status = "found" /\ last.value = ver[last.id].last)

C2_Witness ==
  /\ last.op = "check_version" /\ last.value = 2
  /\ ver[last.id].last = 2 /\ ver[last.id].prev = 1 /\ ~ver[last.id].fresh

\* C3 as stated (Spec): every successful store of an id returns a version
\* greater than every version returned for the id before, deletes included.
C3_MonotonicAcrossDelete ==
  \A id \in Ids : ver[id].last > 0 => ver[id].last > ver[id].max

\* C3 as amended (Spec): every successful store of an id returns a version
\* greater than every version returned for the id since its last successful
\* delete.
C3_MonotonicSinceDelete ==
  \A id \in Ids : ver[id].last > 0 => ver[id].last > ver[id].runmax

\* a store after a delete returns a version that was returned before
C3_Witness ==
  \E id \in Ids : ~ver[id].fresh /\ ver[id].last = 1 /\ ver[id].max = 1

\* C4 as stated (SpecEnv): a get of a live resource whose file was changed
\* from outside to other bytes than the store wrote fails.
C4_ChangedFileFailsGet ==
  (last.op = "get" /\ last.env = "changed") => last.value.none

\* C4 as amended (SpecEnv): whatever happened to the file, the bytes a get
\* returns are the payload of the last successful store and hash to the hash
\* of the record returned with them; so a get of a changed file fails unless
\* the new bytes still decode to the stored payload.
C4_NeverServesCorruptedBytes ==
  (last.op = "get" /\ ~last.value.none) =>
     /\ CalculateHash(last.value.data) = last.value.meta.hash
     /\ last.value.data = stored[last.id].p

\* a changed file whose bytes decode to another payload: the get fails
C4_Witness ==
  /\ last.op = "get" /\ last.env = "changed"
  /\ last.branch = "hash_mismatch" /\ last.value.none

\* C5 (SpecEnv): the response to a get that found a hash mismatch differs
\* from the response to a get of an unknown id.
C5_IntegrityErrorDistinct ==
  (last.op = "get" /\ last.branch = "hash_mismatch") =>
     HttpGetResource(last.value) /= HttpGetResource(None)

\* C6 (Spec): an id has a record exactly if it has a version counter.
C6_RecordVersionSync ==
  DOMAIN metadata.resources = DOMAIN metadata.versions

\* a delete took both entries of one id and left both of the other
C6_Witness ==
  /\ last.op = "delete" /\ last.status = "true"
  /\ last.id \notin DOMAIN metadata.resources
  /\ DOMAIN metadata.versions /= {}

\* C9 (SpecEnv): a store that returns the error dict for a failed payload
\* write has changed neither the records nor the version counters, in
\* memory or in metadata.json.
C9_FailedStoreKeepsMetadata ==
  [][(last'.op = "store" /\ last'.status = "error") =>
       (metadata' = metadata /\ disk_meta' = disk_meta)]_vars

\* a failed store of an id that holds a record, and one of a fresh id
C9_Witness ==
  /\ last.op = "store" /\ last.status = "error"
  /\ last.id \in DOMAIN metadata.resources
  /\ metadata.versions[last.id] = 1

\* C10 (SpecEnv): after a failed store of an id that holds a payload, a get
\* of the id returns that payload.
C10_FailedStoreKeepsPayload ==
  (last.op = "get" /\ last.env = "failed_store") =>
     (~last.value.none /\ last.value.data = stored[last.id].p)

\* C7 (SpecConc): a read that has returned saw a record of the id exactly if
\* it saw a version counter of it, and once every call has returned an id
\* has a record exactly if it has a version counter.
C7_ReadersSeeRecordAndVersion ==
  /\ \A t \in Threads :
       pc[t] = "done" => (loc[t].sawRecord <=> loc[t].sawVersion)
  /\ (\A t \in Threads : pc[t] = "done") =>
       DOMAIN metadata.resources = DOMAIN metadata.versions

\* C8 (SpecConc): two concurrent stores of one id that both return success
\* return different versions, and leave the counter 2 above what it was.
C8_NoLostVersionUpdate ==
  \A t, u \in Threads :
    (/\ t /= u
     /\ pc[t] = "done" /\ pc[u] = "done"
     /\ loc[t].op = "store" /\ loc[u].op = "store"
     /\ loc[t].id = loc[u].id
     /\ loc[t].status = "success" /\ loc[u].status = "success") =>
       /\ loc[t].version /= loc[u].version
       /\ CheckVersionValue(metadata.versions, loc[t].id) = verBefore[loc[t].id] + 2

\* self.metadata has a Resource Record of the id
HasRecord(md, id) == "resources" \in DOMAIN md /\ id \in DOMAIN md.resources

\* C11 (SpecDisk): a store or a delete during which writing metadata.json
\* failed returns a failure result (the error dict, False), not a success.
C11_SaveFailureIsReported ==
  (last.op \in {"store", "delete"} /\ last.branch = "save_error") =>
     last.status \in {"error", "false"}

\* C12 (SpecDisk): when a store, a delete that returned True or a get that
\* returned data has returned, metadata.json holds the in-memory metadata:
\* loading it gives both mappings as they are in memory.
C12_MetadataDurable ==
  (\/ last.op = "store"
   \/ (last.op = "delete" /\ last.status = "true")
   \/ (last.op = "get" /\ last.status = "found")) =>
     LoadMetadata(disk_meta) = metadata

\* C13 (SpecDisk): after a restart that loads the file the last successful
\* _save_metadata wrote, every id has the record and the version it had
\* before the restart.
C13_RestartRoundTrip ==
  (last.op = "restart" /\ last.env = "saved") => metadata = last.value

\* C14 (SpecDisk): whatever metadata.json held at start-up, self.metadata
\* has a resources and a versions mapping, and no operation fails on a
\* missing mapping.
C14_DefensiveLoad ==
  /\ Loaded(metadata)
  /\ last.branch /= "key_error"

\* C15 (SpecDisk): a get of an id that has no Resource Record returns None,
\* which the route answers with 404, whether or not a payload file of the id
\* is on disk.
C15_OrphanNeverServed ==
  [][(last'.op = "get" /\ ~HasRecord(metadata, last'.id)) =>
       (/\ last'.value.none
        /\ last'.value.data = <<>>
        /\ HttpGetResource(last'.value).code = 404)]_vars

\* a get of an id whose store succeeded and that was not deleted since, whose
\* record was lost when an unusable metadata.json was loaded, and whose
\* payload file is on disk
C15_Witness ==
  /\ last.op = "get" /\ last.branch = "unknown" /\ last.value.none
  /\ last.id \in DOMAIN files
  /\ ~ver[last.id].fresh
  /\ Loaded(metadata) /\ last.id \notin DOMAIN metadata.resources

\* C16 (SpecEnv): a get of an id that has a record but no payload file
\* returns None (404 for the route) and no data, and leaves both mappings
\* and metadata.json as they were.
C16_MissingFileIsNotFound ==
  [][(/\ last'.op = "get"
      /\ last'.id \in DOMAIN metadata.resources
      /\ last'.id \notin DOMAIN files) =>
       (/\ last'.value.none
        /\ last'.value.data = <<>>
        /\ HttpGetResource(last'.value).code = 404
        /\ metadata' = metadata
        /\ disk_meta' = disk_meta)]_vars

\* the file of a resource that was read once was removed, and a get followed
C16_Witness ==
  /\ last.op = "get" /\ last.branch = "no_file" /\ last.value.none
  /\ last.id \in DOMAIN metadata.resources
  /\ last.id \notin DOMAIN files
  /\ metadata.versions[last.id] = 1

\* C17 (SpecEnv): a delete of an id that has no record returns False and
\* changes neither mapping nor any payload file; a delete of an id that has
\* a record returns True (and the delete after it, finding no record, False).
C17_IdempotentDelete ==
  [][(last'.op = "delete") =>
       IF HasRecord(metadata, last'.id)
       THEN last'.status = "true"
       ELSE last'.status = "false" /\ metadata' = metadata /\ files' = files]_vars

\* C18 (SpecEnv): from a delete of the id that returned True until the next
\* successful store of the id, the id has no record, no version counter and
\* no payload file, get and check_version find nothing and the listing has
\* no summary of it.
C18_DeletedUntilNextStore ==
  \A id \in EnvIds :
    (ver[id].fresh /\ ver[id].last > 0) =>
       /\ id \notin DOMAIN metadata.resources
       /\ id \notin DOMAIN metadata.versions
       /\ id \notin DOMAIN files
       /\ GetBranch(id) = "unknown"
       /\ CheckVersionValue(metadata.versions, id) = 0
       /\ \A i \in DOMAIN ListResources(metadata, NoFilter) :
            ListResources(metadata, NoFilter)[i].id /= id

\* C19 (SpecEnv): delete returns True exactly when the id had a record when
\* it was called, whatever happens during the call.
C19_DeleteReturnsExisted ==
  [][(last'.op = "delete") =>
       (last'.status = "true" <=> HasRecord(metadata, last'.id))]_vars

\* C20 (SpecList): a listing is in strictly descending order of the
\* last_accessed of the records it summarises, and a listing that follows a
\* successful store or get of an id and contains the id has it first.
C20_ListingOrder ==
  [][(last'.op = "list") =>
       (/\ \A i, j \in DOMAIN last'.value :
             i < j => /\ last'.value[i].last_accessed > last'.value[j].last_accessed
                      /\ metadata.resources[last'.value[i].id].last_accessed
                           > metadata.resources[last'.value[j].id].last_accessed
        /\ (/\ last.op \in {"store", "get"}
            /\ last.status \in {"success", "found"}
            /\ \E i \in DOMAIN last'.value : last'.value[i].id = last.id)
             => last'.value[1].id = last.id)]_vars

\* three resources accessed at three times, listed latest first
C20_Witness ==
  /\ last.op = "list" /\ Len(last.value) = 3
  /\ last.value[1].last_accessed > last.value[2].last_accessed
  /\ last.value[2].last_accessed > last.value[3].last_accessed
  /\ \E i \in 1..3 : last.value[i].access_count = 0

\* the ids that have a record the filter lets through
Listed(md, filter) ==
  {id \in DOMAIN md.resources : filter.any \/ md.resources[id].type = filter.type}

\* C21 (SpecList): under every filter the listing has exactly one summary
\* per record whose type the filter lets through (every record without a
\* filter), each summary carries its record's fields, and the count of the
\* HTTP response is the number of summaries.
C21_ListingComplete ==
  /\ \A filter \in Filters :
       LET L == ListResources(metadata, filter)
       IN /\ Len(L) = Cardinality(Listed(metadata, filter))
          /\ {L[i].id : i \in DOMAIN L} = Listed(metadata, filter)
          /\ \A i \in DOMAIN L :
               /\ L[i].type = metadata.resources[L[i].id].type
               /\ L[i].size = metadata.resources[L[i].id].size
               /\ L[i].access_count = metadata.resources[L[i].id].access_count
               /\ L[i].version = metadata.versions[L[i].id]
          /\ HttpListResources(L).count = Len(L)
  /\ (last.op = "list") =>
        \E filter \in Filters : last.value = ListResources(metadata, filter)

\* a listing by type that leaves out a record of another type
C21_Witness ==
  /\ last.op = "list" /\ Len(last.value) = 1
  /\ last.value[1].type = "text"
  /\ Cardinality(DOMAIN metadata.resources) = 2

\* history: the bytes of the payloads given to the stores the live records
\* come from, and the bytes of the payload files of the live records
RECURSIVE TotalLen(_, _)
TotalLen(f, keys) ==
  IF keys = {} THEN 0
  ELSE LET k == CHOOSE x \in keys : TRUE
       IN Len(f[k]) + TotalLen(f, keys \ {k})

PayloadOf == [id \in DOMAIN stored |-> stored[id].p]

\* C22 (Spec): the statistics report the number of records, the total
\* length of their payloads as total_size, the total length of their
\* payload files as total_compressed_size, and as ratio the second over the
\* first, or 0 when the first is 0.
C22_StatsConsistent ==
  /\ StorageStats(metadata).resource_count = Cardinality(DOMAIN metadata.resources)
  /\ StorageStats(metadata).total_size = TotalLen(PayloadOf, DOMAIN metadata.resources)
  /\ StorageStats(metadata).total_compressed_size = TotalLen(files, DOMAIN metadata.resources)
  /\ StorageStats(metadata).compression_ratio =
       IF TotalLen(PayloadOf, DOMAIN metadata.resources) > 0
       THEN [num |-> TotalLen(files, DOMAIN metadata.resources),
             den |-> TotalLen(PayloadOf, DOMAIN metadata.resources)]
       ELSE [num |-> 0, den |-> 1]
  /\ (last.op = "stats") => last.value = StorageStats(metadata)

\* two empty payloads stored compressed: total_size 0, ratio 0
C22_Witness ==
  /\ last.op = "stats"
  /\ last.value.resource_count = 2
  /\ last.value.total_size = 0
  /\ last.value.total_compressed_size > 0
  /\ last.value.compression_ratio.num = 0

\* C23 (SpecEnv), one request at a time: a get that returns data adds exactly 1 to the record's
\* access_count and sets its last_accessed to the time of the call; a get
\* that returns None (unknown id, no file, decompression failure, hash
\* mismatch) changes nothing; a successful store leaves access_count 0; no
\* other step changes either field.  So access_count is the number of gets
\* that returned data since the last successful store.
C23_AccessCount ==
  [][\A id \in EnvIds :
       LET had == id \in DOMAIN metadata.resources
           has == id \in DOMAIN metadata'.resources
           got == /\ last' /= last /\ last'.op = "get"
                  /\ last'.id = id /\ last'.status = "found"
           put == /\ last' /= last /\ last'.op = "store"
                  /\ last'.id = id /\ last'.status = "success"
       IN /\ got => /\ had /\ has
                    /\ metadata'.resources[id].access_count
                         = metadata.resources[id].access_count + 1
                    /\ metadata'.resources[id].last_accessed = now
                    /\ metadata.resources[id].last_accessed < now
                    /\ last'.value.meta = metadata'.resources[id]
          /\ (last'.op = "get" /\ last'.status = "none") => metadata' = metadata
          /\ put => has /\ metadata'.resources[id].access_count = 0
          /\ (had /\ has /\ ~got /\ ~put) =>
               /\ metadata'.resources[id].access_count
                    = metadata.resources[id].access_count
               /\ metadata'.resources[id].last_accessed
                    = metadata.resources[id].last_accessed]_vars

\* C24 (Spec): check_version, list_resources, get_storage_stats and the
\* info route change neither mapping (so no access_count and no
\* last_accessed), nor metadata.json, nor any payload file.
C24_PureReads ==
  [][(last'.op \in {"check_version", "list", "stats", "info"}) =>
       (/\ metadata' = metadata
        /\ disk_meta' = disk_meta
        /\ files' = files)]_vars

\* the info route answered for a resource that was read once before
C24_Witness ==
  /\ last.op = "info" /\ last.status = "success"
  /\ last.value.metadata.access_count = 1
  /\ metadata.resources[last.id].access_count = 1

Quiescent == \A t \in Threads : pc[t] \in {"idle", "done"}

\* C26 (SpecConc): when no call is in progress, a record whose payload file
\* exists says compressed exactly when the file is the gzip form of the
\* payload (the raw payload otherwise), and its compressed_size is the
\* length of the file (its size too when not compressed).
C26_FlagMatchesFile ==
  Quiescent =>
    \A id \in ConcIds :
      (id \in DOMAIN metadata.resources /\ id \in DOMAIN files) =>
         LET rec == metadata.resources[id]
         IN /\ IF rec.compressed
               THEN /\ GzipValid(files[id])
                    /\ CalculateHash(DecompressData(files[id])) = rec.hash
               ELSE /\ CalculateHash(files[id]) = rec.hash
                    /\ rec.compressed_size = rec.size
            /\ rec.compressed_size = Len(files[id])

\* C28 (SpecConc): once two concurrent calls, each a store or a delete of
\* the id, have both returned, the id has a record exactly when its payload
\* file exists.
C28_FilesFollowMetadata ==
  (\A t \in Threads : pc[t] = "done" /\ loc[t].op \in {"store", "delete"}) =>
     \A id \in ConcIds :
       (id \in DOMAIN metadata.resources <=> id \in DOMAIN files)

\* the payloads the stores of the id were given: the one the manager starts
\* with, and those of the store calls made
GivenPayloads(id) ==
  (IF verBefore[id] > 0 THEN {<<0>>} ELSE {})
    \cup {loc[u].data : u \in {v \in Threads : loc[v].op = "store" /\ loc[v].id = id}}

\* C27 (SpecRead): a get that returns data beside concurrent stores of the
\* id returns one of the payloads the stores were given, whole, with a
\* record whose hash is the hash of the bytes returned.
C27_ReaderSeesWholePayload ==
  \A t \in Threads :
    (pc[t] = "done" /\ loc[t].op = "get" /\ loc[t].status = "found") =>
       /\ loc[t].out \in GivenPayloads(loc[t].id)
       /\ loc[t].meta.hash = CalculateHash(loc[t].out)

\* a get returned the payload of a store that has not returned yet
C27_Witness ==
  \E t, u \in Threads :
    /\ pc[t] = "done" /\ loc[t].op = "get" /\ loc[t].status = "found"
    /\ loc[u].op = "store" /\ pc[u] \notin {"idle", "done"}
    /\ loc[t].out = loc[u].data /\ loc[t].out /= <<0>>

\* C23 (SpecRead): when two concurrent gets of the id have both returned
\* data, the record's access_count is 2 more than before them.
C23_CountsEveryGet ==
  (\A t \in Threads : pc[t] = "done" /\ loc[t].op = "get" /\ loc[t].status = "found") =>
     \A id \in ConcIds : metadata.resources[id].access_count = 2

\* C29 (SpecDisk): no method of the manager raises to its caller, whatever
\* metadata it loaded and whatever the file system does.
C29_ErrorsAreResults ==
  ~(last.op \in {"check_version", "list", "stats"} /\ last.status = "raised")

\* C30 (Spec): a get, download, version, info or delete request for an id
\* that has no record is answered with 404 and status "error", and changes
\* neither mapping nor any payload file.
C30_NotFoundAtInterface ==
  [][(~HasRecord(metadata, last'.id)) =>
       /\ (last'.op = "get") =>
             /\ HttpGetResource(last'.value).code = 404
             /\ HttpGetResource(last'.value).status = "error"
             /\ HttpDownload(last'.value).code = 404
             /\ HttpDownload(last'.value).status = "error"
       /\ (last'.op = "check_version") =>
             /\ HttpCheckVersion(last'.status, last'.value).code = 404
             /\ HttpCheckVersion(last'.status, last'.value).status = "error"
       /\ (last'.op = "info") =>
             last'.value.code = 404 /\ last'.value.status = "error"
       /\ (last'.op = "delete") =>
             /\ HttpDelete(last'.value).code = 404
             /\ HttpDelete(last'.value).status = "error"
       /\ (last'.op \in {"get", "check_version", "info", "delete"}) =>
             metadata' = metadata /\ files' = files]_vars

\* the version of an id without a record was asked for while another id
\* has one
C30_Witness ==
  /\ last.op = "check_version" /\ last.status = "none"
  /\ HttpCheckVersion(last.status, last.value).code = 404
  /\ last.id \notin DOMAIN metadata.resources
  /\ DOMAIN metadata.resources /= {}

(***************************************************************************)
(* The store route (app.py lines 122-153): the JSON body of the request,   *)
(* its validation, the base64 decoding of its "data" field, and the call   *)
(* of store_resource.                                                      *)
(***************************************************************************)
\* a base64 text is a sequence of characters: the alphabet's characters are
\* their 6-bit values 0..63, then '=', then a character outside the alphabet
Pad == 64
Other == 65

\* base64.b64encode, on bytes 0..255
RECURSIVE B64Encode(_)
B64Encode(data) ==
  IF Len(data) = 0 THEN <<>>
  ELSE IF Len(data) = 1
    THEN <<data[1] \div 4, (data[1] % 4) * 16, Pad, Pad>>
  ELSE IF Len(data) = 2
    THEN <<data[1] \div 4, (data[1] % 4) * 16 + data[2] \div 16,
           (data[2] % 16) * 4, Pad>>
  ELSE <<data[1] \div 4, (data[1] % 4) * 16 + data[2] \div 16,
         (data[2] % 16) * 4 + data[3] \div 64, data[3] % 64>>
         \o B64Encode(SubSeq(data, 4, Len(data)))

\* base64.b64decode(s) with validate=False, as binascii.a2b_base64 scans s:
\* a character outside the alphabet is skipped; '=' is skipped unless it
\* completes the padding of a group of 2 or 3 characters, and then the scan
\* stops; a group left incomplete at the end of s is an error.
\*   i     the position in s          quad  characters in the current group
\*   pads  '=' seen in a row          left  bits carried to the next byte
RECURSIVE B64Scan(_, _, _, _, _, _)
B64Scan(s, i, quad, pads, left, out) ==
  IF i > Len(s) THEN [ok |-> quad = 0, bytes |-> out]
  ELSE IF s[i] = Pad
    THEN IF quad >= 2 /\ quad + pads + 1 >= 4
           THEN [ok |-> TRUE, bytes |-> out]
           ELSE B64Scan(s, i + 1, quad, IF quad >= 2 THEN pads + 1 ELSE pads,
                        left, out)
  ELSE IF s[i] = Other THEN B64Scan(s, i + 1, quad, pads, left, out)
  ELSE IF quad = 0 THEN B64Scan(s, i + 1, 1, 0, s[i], out)
  ELSE IF quad = 1
    THEN B64Scan(s, i + 1, 2, 0, s[i] % 16,
                 Append(out, left * 4 + s[i] \div 16))
  ELSE IF quad = 2
    THEN B64Scan(s, i + 1, 3, 0, s[i] % 4,
                 Append(out, left * 16 + s[i] \div 4))
  ELSE B64Scan(s, i + 1, 0, 0, 0, Append(out, left * 64 + s[i]))

B64Decode(s) == B64Scan(s, 1, 0, 0, 0, <<>>)

\* the request body, as request.get_json() returns it: each of the keys
\* 'resource_id', 'data' and 'compress' is there or not; the value of
\* 'data' is a string or a number
WebIds == {"", "a", "./a"}
\* the ids a URL of the get and delete routes can carry in its
\* <resource_id> segment: not empty, without '/'
RouteIds == {"a"}
WebTexts ==
  {B64Encode(p) : p \in Payloads}
    \cup {<<0>>, <<0, 16>>, <<Other>>, <<0, Other, 16, Pad, Other, Pad>>}
NoBody ==
  [has_id |-> FALSE, resource_id |-> "", data |-> "absent", text |-> <<>>,
   has_compress |-> FALSE]
Bodies ==
  {NoBody}
    \cup [has_id : {FALSE}, resource_id : {""}, data : {"string"},
          text : {B64Encode(<<1>>)}, has_compress : {FALSE}]
    \cup [has_id : {TRUE}, resource_id : WebIds, data : {"absent", "number"},
          text : {<<>>}, has_compress : {FALSE}]
    \cup [has_id : {TRUE}, resource_id : WebIds, data : {"string"},
          text : WebTexts, has_compress : BOOLEAN]

\* lines 129-130 and 139-142: the answers with code 400
BadRequest(message) == [code |-> 400, status |-> "error", message |-> message]

\* line 129: not data or 'resource_id' not in data or 'data' not in data
MissingFields(body) == ~body.has_id \/ body.data = "absent"

\* line 140: b64decode raises TypeError for a number, binascii.Error for a
\* text it cannot decode
Decodes(body) == body.data = "string" /\ B64Decode(body.text).ok

\* line 135: data.get('compress', True); a body that carries 'compress'
\* carries false
CompressOf(body) == ~body.has_compress

HttpStore(body) ==
  IF MissingFields(body) \/ ~Decodes(body)
    THEN /\ last' = Returned("store", body.resource_id, "rejected",
                             IF MissingFields(body) THEN "missing" ELSE "base64",
                             "",
                             BadRequest(IF MissingFields(body)
                                          THEN "Missing required fields"
                                          ELSE "Invalid base64 data"))
         /\ UNCHANGED <<metadata, files, disk_meta, now, stored, ver>>
         /\ Seq_unchanged
    ELSE Store(body.resource_id, B64Decode(body.text).bytes, DefaultOpt,
               CompressOf(body))

InitWeb ==
  /\ metadata = EmptyMetadata
  /\ files = EmptyDict
  /\ disk_meta = NoFile
  /\ now = 1
  /\ last = Returned("init", "", "", "", "", <<>>)
  /\ stored = [i \in WebIds |-> NoStored]
  /\ ver = [i \in WebIds |-> NoVersions]
  /\ pc = [t \in Threads |-> "idle"]
  /\ loc = [t \in Threads |-> NoCall]
  /\ verBefore = [i \in WebIds |-> 0]
  /\ relay = NewRelay

NextWeb ==
  \/ \E body \in Bodies : HttpStore(body)
  \/ \E id \in RouteIds : Get(id)
  \/ \E id \in RouteIds : Delete(id)

SpecWeb == InitWeb /\ [][NextWeb]_vars

\* C31 (SpecWeb): a store request whose body has no 'resource_id' or an
\* empty one, has no 'data', or has a 'data' that base64 decoding refuses,
\* is answered with the validation error (400), and the records, the
\* version counters, the payload files and metadata.json stay as they were.
C31_StoreValidation ==
  [][\A body \in Bodies :
       (/\ HttpStore(body)
        /\ \/ ~body.has_id
           \/ body.resource_id = ""
           \/ body.data = "absent"
           \/ ~Decodes(body))
       => /\ last'.status = "rejected"
          /\ last'.value.code = 400
          /\ UNCHANGED <<metadata, files, disk_meta>>]_vars

WouldGet(id) ==
  IF GetBranch(id) = "ok"
    THEN DataAndMeta(ReadData(metadata.resources[id], files[FilePath(id)]),
                     metadata.resources[id]).data
    ELSE None.data
WouldGetNone(id) == GetBranch(id) /= "ok"

\* C33 (SpecWeb): for two different ids a and b, a store, get or delete of
\* a leaves b's record, b's version counter and b's payload file as they
\* were, and a get of b would return after it what it would have returned
\* before it.
C33_Isolation ==
  [][\A a \in WebIds, b \in WebIds :
       (/\ a /= b
        /\ b \in DOMAIN metadata.resources
        /\ \/ \E body \in Bodies : body.resource_id = a /\ HttpStore(body)
           \/ a \in RouteIds /\ (Get(a) \/ Delete(a)))
       => /\ (b \in DOMAIN metadata'.resources) = (b \in DOMAIN metadata.resources)
          /\ b \in DOMAIN metadata.resources =>
               metadata'.resources[b] = metadata.resources[b]
          /\ (b \in DOMAIN metadata'.versions) = (b \in DOMAIN metadata.versions)
          /\ b \in DOMAIN metadata.versions =>
               metadata'.versions[b] = metadata.versions[b]
          /\ (FilePath(b) \in DOMAIN files') = (FilePath(b) \in DOMAIN files)
          /\ FilePath(b) \in DOMAIN files =>
               files'[FilePath(b)] = files[FilePath(b)]
          /\ WouldGetNone(b)' = WouldGetNone(b)
          /\ WouldGet(b)' = WouldGet(b)]_vars

\* the entries list_resources() shows for an id
ListedFor(md, id) ==
  {ListResources(md, NoFilter)[i] : i \in
     {j \in 1..Len(ListResources(md, NoFilter)) :
        ListResources(md, NoFilter)[j].id = id}}

\* C34 (Spec): when a store has returned its success dict, the dict's size,
\* compressed_size and hash are those of the record now held for the id,
\* and its version is the one check_version returns, the one the listing
\* shows for the id and the one the info route shows.
C34_StoreResultAgrees ==
  (last.op = "store" /\ last.status = "success") =>
     /\ last.id \in DOMAIN metadata.resources
     /\ last.value.size = metadata.resources[last.id].size
     /\ last.value.compressed_size = metadata.resources[last.id].compressed_size
     /\ last.value.compressed_size = Len(files[FilePath(last.id)])
     /\ last.value.hash = metadata.resources[last.id].hash
     /\ last.value.version = CheckVersionValue(metadata.versions, last.id)
     /\ ListedFor(metadata, last.id) /= {}
     /\ \A e \in ListedFor(metadata, last.id) :
          /\ e.version = last.value.version
          /\ e.size = last.value.size
          /\ e.compressed_size = last.value.compressed_size
     /\ InfoResponse(metadata, last.id).code = 200
     /\ InfoResponse(metadata, last.id).version = last.value.version
     /\ InfoResponse(metadata, last.id).metadata.hash = last.value.hash

\* the second store of an id, compressed, of one byte
C34_Witness ==
  /\ last.op = "store" /\ last.status = "success"
  /\ last.value.version = 2
  /\ last.value.size = 1
  /\ last.value.compressed_size > last.value.size
  /\ metadata.resources[last.id].compressed
  /\ InfoResponse(metadata, last.id).version = 2

(***************************************************************************)
(* get_resource beside a concurrent delete_resource of the id, with        *)
(* _save_metadata (lines 38-44) cut at its three accesses to shared state: *)
(*   open(self.metadata_file, 'w')   metadata.json is emptied;             *)
(*   json.dump(self.metadata, f)     the text of self.metadata goes to the *)
(*                                   file object's buffer (the text of a   *)
(*                                   few records is shorter than it);      *)
(*   leaving the with block          the buffer is written at the start of *)
(*                                   metadata.json.                        *)
(***************************************************************************)
\* what open(..., 'w') leaves: an empty file, which json.load rejects
Truncated == Unparseable

\* the length of the JSON text of a metadata value, up to what decides which
\* of two texts is the longer: a record is longer than a version entry
JsonLen(md) ==
  10 * Cardinality(DOMAIN md.resources) + Cardinality(DOMAIN md.versions)

\* the buffer written at offset 0 of the file: over an empty file or over a
\* text that is not longer the file is the buffer; over a longer text the
\* tail of that text stays behind the buffer, and the file is not JSON
Flushed(file, buf) ==
  IF file.kind = "json" /\ JsonLen(file.value) > JsonLen(buf.value)
  THEN Unparseable ELSE buf

\* line 142, open
GetSaveOpen(t) ==
  /\ pc[t] = "g_save"
  /\ disk_meta' = Truncated
  /\ Goto(t, "g_dump")
  /\ UNCHANGED <<metadata, files, now, loc>>
  /\ Conc_unchanged

\* line 142, json.dump
GetSaveDump(t) ==
  /\ pc[t] = "g_dump"
  /\ pc' = [pc EXCEPT ![t] = "g_close"]
  /\ loc' = [loc EXCEPT ![t].buf = SaveMetadata(metadata)]
  /\ UNCHANGED <<metadata, files, disk_meta, now>>
  /\ Conc_unchanged

\* lines 142-146: the file is closed, (data, resource_meta) is returned
GetSaveClose(t) ==
  /\ pc[t] = "g_close"
  /\ disk_meta' = Flushed(disk_meta, loc[t].buf)
  /\ pc' = [pc EXCEPT ![t] = "done"]
  /\ loc' = [loc EXCEPT ![t].status = "found", ![t].meta = RecordHeld(t)]
  /\ UNCHANGED <<metadata, files, now>>
  /\ Conc_unchanged

\* line 190, open
DeleteSaveOpen(t) ==
  /\ pc[t] = "d_save"
  /\ disk_meta' = Truncated
  /\ Goto(t, "d_dump")
  /\ UNCHANGED <<metadata, files, now, loc>>
  /\ Conc_unchanged

\* line 190, json.dump
DeleteSaveDump(t) ==
  /\ pc[t] = "d_dump"
  /\ pc' = [pc EXCEPT ![t] = "d_close"]
  /\ loc' = [loc EXCEPT ![t].buf = SaveMetadata(metadata)]
  /\ UNCHANGED <<metadata, files, disk_meta, now>>
  /\ Conc_unchanged

\* lines 190-193: the file is closed, True is returned
DeleteSaveClose(t) ==
  /\ pc[t] = "d_close"
  /\ disk_meta' = Flushed(disk_meta, loc[t].buf)
  /\ Return(t, "true", 0)
  /\ UNCHANGED <<metadata, files, now>>
  /\ Conc_unchanged

DelCalls ==
  [op : {"get", "delete"}, id : ConcIds, data : {<<>>}, compress : {FALSE}]

NextDel ==
  \/ \E t \in Threads, c \in DelCalls : Call(t, c)
  \/ Tick
  \/ \E t \in Threads : GetCheck(t)
  \/ \E t \in Threads : GetExists(t)
  \/ \E t \in Threads : GetRead(t)
  \/ \E t \in Threads : GetMeta(t)
  \/ \E t \in Threads : GetVerify(t)
  \/ \E t \in Threads : GetTouch(t)
  \/ \E t \in Threads : GetCountRead(t)
  \/ \E t \in Threads : GetCountWrite(t)
  \/ \E t \in Threads : GetSaveOpen(t)
  \/ \E t \in Threads : GetSaveDump(t)
  \/ \E t \in Threads : GetSaveClose(t)
  \/ \E t \in Threads : DeleteCheck(t)
  \/ \E t \in Threads : DeleteExists(t)
  \/ \E t \in Threads : DeleteRemove(t)
  \/ \E t \in Threads : DeleteRecord(t)
  \/ \E t \in Threads : DeleteVersionCheck(t)
  \/ \E t \in Threads : DeleteVersion(t)
  \/ \E t \in Threads : DeleteSaveOpen(t)
  \/ \E t \in Threads : DeleteSaveDump(t)
  \/ \E t \in Threads : DeleteSaveClose(t)

SpecDel == InitConc /\ [][NextDel]_vars

\* a get and a delete of the id have both returned, the delete with True
GetAndDeleteReturned(id) ==
  \E g \in Threads, d \in Threads :
    /\ pc[g] = "done" /\ loc[g].op = "get" /\ loc[g].id = id
    /\ pc[d] = "done" /\ loc[d].op = "delete" /\ loc[d].id = id
    /\ loc[d].status = "true"

\* C35 (SpecDel): once a get and a delete of the same id that ran side by
\* side have both returned, the delete with True, the id has no record
\* and no version counter in memory ...
C35_GoneFromMemory ==
  \A id \in ConcIds :
    GetAndDeleteReturned(id) =>
      /\ id \notin DOMAIN metadata.resources
      /\ id \notin DOMAIN metadata.versions

\* C35 (SpecDel): ... and none in metadata.json.
C35_NoResurrection ==
  \A id \in ConcIds :
    GetAndDeleteReturned(id) =>
      /\ id \notin DOMAIN metadata.resources
      /\ id \notin DOMAIN metadata.versions
      /\ disk_meta.kind = "json" =>
           /\ id \notin DOMAIN disk_meta.value.resources
           /\ id \notin DOMAIN disk_meta.value.versions

(***************************************************************************)
(* M5DebugServer.handle_client (lines 117-165), cut at its awaits.         *)
(***************************************************************************)
Manager_unchanged ==
  UNCHANGED <<metadata, files, disk_meta, now, last, stored, ver,
              pc, loc, verBefore>>

ClientId(k) == relay.conns[k].addr

SetConn(r, k, state) == [r EXCEPT !.conns[k].state = state]

\* lines 119-120: a connection is accepted from a peer whose address no
\* connection that is still up has
HandleConnect(k, addr) ==
  /\ relay.conns[k].state = "free"
  /\ \A j \in Conns :
       relay.conns[j].state \in {"welcome", "open"} => relay.conns[j].addr /= addr
  /\ relay' = AddClient([relay EXCEPT !.conns[k] = [state |-> "welcome", addr |-> addr]],
                        addr, k)
  /\ Manager_unchanged

\* lines 124-130: the welcome message is sent
HandleWelcome(k) ==
  /\ relay.conns[k].state = "welcome"
  /\ relay' = SetConn(relay, k, "open")
  /\ Manager_unchanged

\* lines 132-158: a message arrives.  A text that is not JSON is answered
\* with an error (lines 148-155); any other goes to process_data, and the
\* exceptions of lines 137-146 are caught at line 157: the loop goes on.
HandleMessage(k, m) ==
  /\ relay.conns[k].state = "open"
  /\ relay.clock < MaxMsgs
  /\ LET r == [relay EXCEPT !.clock = @ + 1]
     IN relay' = IF m.kind = "text" THEN r
                 ELSE ProcessData(r, ClientId(k), m).r
  /\ Manager_unchanged

\* the connection goes down while the handler waits at an await
ConnectionLost(k) ==
  /\ relay.conns[k].state \in {"welcome", "open"}
  /\ relay' = SetConn(relay, k, "closing")
  /\ Manager_unchanged

\* lines 160-165: the loop ends or an exception leaves the try block, by a
\* close of the connection or by an error; the finally clause runs
HandleEnd(k) ==
  /\ relay.conns[k].state \in {"open", "closing"}
  /\ relay' = RemoveClient([relay EXCEPT !.conns[k] = [state |-> "free", addr |-> ""]],
                           ClientId(k))
  /\ Manager_unchanged

InitRelay == Init

NextRelay ==
  \/ \E k \in Conns, addr \in Addrs : HandleConnect(k, addr)
  \/ \E k \in Conns : HandleWelcome(k)
  \/ \E k \in Conns, m \in Msgs : HandleMessage(k, m)
  \/ \E k \in Conns : ConnectionLost(k)
  \/ \E k \in Conns : HandleEnd(k)

SpecRelay == InitRelay /\ [][NextRelay]_vars

\* the last n elements of a sequence
LastN(s, n) == SubSeq(s, Len(s) - n + 1, Len(s))

\* C36 (SpecRelay): data_history never holds more than max_history entries,
\* and it holds the entries process_data appended last, in the order of
\* their arrival: the oldest entry is the one dropped.
C36_HistoryBoundedFifo ==
  /\ Len(relay.data_history) <= MaxHistory
  /\ relay.data_history =
       LastN(relay.accepted,
             IF Len(relay.accepted) < MaxHistory
             THEN Len(relay.accepted) ELSE MaxHistory)
  /\ \A i \in DOMAIN relay.data_history, j \in DOMAIN relay.data_history :
       i < j => relay.data_history[i].server_timestamp
                  < relay.data_history[j].server_timestamp

\* more messages than the history holds were appended, by two clients
C36_Witness ==
  /\ Len(relay.accepted) > MaxHistory
  /\ Len(relay.data_history) = MaxHistory
  /\ relay.data_history[1] /= relay.accepted[1]
  /\ relay.data_history[MaxHistory] = relay.accepted[Len(relay.accepted)]
  /\ relay.data_history[1].client_id /= relay.data_history[MaxHistory].client_id

\* C37 (SpecRelay): stats['connected_clients'] is always the number of
\* entries of clients, and when a connection handler ends, by the end of
\* its loop, a closed connection or an error, its client id is no longer
\* in clients.
C37_ClientTracking ==
  /\ [](relay.stats.connected_clients = Cardinality(DOMAIN relay.clients))
  /\ [][\A k \in Conns :
          HandleEnd(k) => ClientId(k) \notin DOMAIN relay'.clients]_vars

\* a client whose messages were processed, one of them with an error, has
\* gone, and another one is still connected
C37_Witness ==
  /\ \E i \in DOMAIN relay.accepted :
       relay.accepted[i].client_id \notin DOMAIN relay.clients
  /\ ~relay.all_true
  /\ relay.stats.connected_clients = 1
  /\ Cardinality(DOMAIN relay.clients) = 1
  /\ \E k \in Conns : relay.conns[k].state = "free"

RECURSIVE SumCounts(_)
SumCounts(by_type) ==
  IF DOMAIN by_type = {} THEN 0
  ELSE LET t == CHOOSE x \in DOMAIN by_type : TRUE
       IN by_type[t] + SumCounts(Del(by_type, t))

\* the entries of a sequence that have no type
Untyped(s) == {i \in DOMAIN s : s[i].type_is = "absent"}

\* C38 (SpecRelay): as long as every process_data call has returned True,
\* stats['total_messages'] is the sum of the counts of
\* stats['messages_by_type'], and the messages without a type are counted
\* under "unknown".
C38_CountersAgree ==
  relay.all_true =>
    /\ relay.stats.total_messages = SumCounts(relay.stats.messages_by_type)
    /\ relay.stats.total_messages = Len(relay.accepted)
    /\ DictGet(relay.stats.messages_by_type, "unknown", 0)
         = Cardinality(Untyped(relay.accepted))

\* two messages of one type and one without a type
C38_Witness ==
  /\ relay.all_true
  /\ relay.stats.total_messages = 3
  /\ DOMAIN relay.stats.messages_by_type = {"memory", "unknown"}
  /\ relay.stats.messages_by_type["memory"] = 2
  /\ relay.stats.messages_by_type["unknown"] = 1
====
